---- MODULE Spec2Model ----
(***************************************************************************)
(* Model of the scraping orchestration core of ScraperMELI-Linkedin:       *)
(*   core/utils.py        retry_async                                      *)
(*   core/browser.py      PagePool                                         *)
(*   scrapers/mercadolibre/scraper.py   _scrape_search_term,               *)
(*                        scrape_products, scrape_product_details          *)
(*   scrapers/linkedin/scraper.py       scrape_jobs, _scrape_search_term   *)
(* Each part has its own specification (SpecRetry, SpecPool, SpecPaginate, *)
(* SpecRun); the variables of the other parts stay at their idle values.   *)
(***************************************************************************)
EXTENDS Integers, Naturals, Sequences, FiniteSets, TLC

VARIABLES
    \* ---- retry_async.wrapper (core/utils.py) ----
    max_retries,      \* decorator parameter
    delay,            \* decorator parameter (initial delay)
    backoff,          \* decorator parameter
    attempt,          \* loop variable of "for attempt in range(max_retries + 1)"
    current_delay,    \* local current_delay
    last_exception,   \* local last_exception
    retry_pc,         \* position of the wrapper
    retry_trace,      \* what the wrapper did, in order: calls of func and sleeps
    retry_log,        \* the logger.warning / logger.error records it emitted
    raised,           \* the exception the wrapper raised to its caller
    \* ---- PagePool (core/browser.py) ----
    size,             \* PagePool.size
    pages,            \* PagePool.pages: the pages created by initialize
    available_pages,  \* PagePool.available_pages: asyncio.Queue, FIFO
    pool_pc,          \* "new", "ready" (initialized) or "closed" (close_all)
    pages_opened,     \* context.new_page() calls made on behalf of the pool
    \* ---- the detail loop of scrape_product_details, one copy per task ----
    task_pc,          \* position of each task in the loop body
    task_i,           \* loop index i: iterations completed
    task_page,        \* local page: the page the task holds, or NoPage
    task_attempt,     \* attempt of retry_async around _scrape_single_product_detail
    task_detail,      \* local product_detail of the current iteration
    task_gets,        \* get_page calls that returned a page to the task
    task_returns,     \* return_page calls made by the task
    task_last,        \* <<last page obtained, last page returned>>
    \* ---- MercadoLibreScraper._scrape_search_term, one invocation ----
    max_products,             \* self.max_products
    page_number,              \* local page_number
    products_scraped,         \* local products_scraped
    consecutive_empty_pages,  \* local consecutive_empty_pages
    products,                 \* local products: the accepted records so far
    pag_pc,                   \* position: start, loop, after_loop, returned, raised
    iterations,               \* iterations of the while loop started (pages processed)
    last_page,                \* what the last processed page offered
    stop_reason,              \* which statement ended the loop
    term_page,                \* the page of this invocation: none, open, closed
    term_result,              \* the list the invocation returned
    pag_site,                 \* whose _scrape_search_term: mercadolibre or linkedin
    pag_attempt,              \* attempt of the retry_async wrapper (0-based)
    pag_trace,                \* pages opened and closed, navigations and sleeps of
                              \* the wrapper, in order, over all attempts
    \* ---- scrape_products / scrape_jobs: one run over the search terms ----
    site,               \* which scraper runs: "mercadolibre" or "linkedin"
    n_terms,            \* len(search_terms)
    run_pc,             \* position of the run
    term_i,             \* loop index i (0-based)
    run_attempt,        \* attempt of retry_async around _scrape_search_term
    all_products,       \* local all_products / all_jobs
    term_status,        \* per term: pending, ok, failed, fatal
    term_records,       \* per term: the list its scrape returned
    run_trace,          \* terms scraped, delays and the deduplication, in order
    run_result,         \* the list the run returned to its caller
    scraped_products,   \* self.scraped_products / self.jobs_data
    browser_manager,    \* BrowserManager: playwright, browser, contexts
    chromium,           \* what runs outside: driver, browser processes, contexts
    \* ---- scrape_linkedin_jobs: the enrichment pass after scrape_jobs ----
    details_mode,       \* who asks for details: off, main (scrape_linkedin_jobs), direct
    max_details,        \* parameter max_details of scrape_job_details
                        \* (scrape_product_details: self.max_products)
    det_pc,             \* position of scrape_job_details
    det_i,              \* loop index i over jobs[:max_details]
    det_visits,         \* indices of the jobs whose detail page was navigated to
    det_page,           \* local page: none, open, closed
    det_context,        \* local context: its number, or 0
    detail_urls,        \* argument product_urls of scrape_product_details
    \* ---- a BrowserManager driven directly by its caller ----
    manager_calls,      \* the calls made on the manager, in order
    \* ---- _remove_duplicates applied to two batches of records ----
    dd_site,            \* whose _remove_duplicates: mercadolibre or linkedin
    batch_a,            \* the records of the first batch
    batch_b,            \* the records of the second batch
    dd_pc,              \* input, once (applied), twice (applied to its output)
    dedup_once,         \* _remove_duplicates(batch_a + batch_b)
    dedup_twice,        \* _remove_duplicates of dedup_once
    \* ---- one field extractor of a parser, over its list of selectors ----
    ex_field,           \* which extractor runs
    ex_locators,        \* what each selector of the list would give
    ex_i,               \* selectors tried so far (position in the for loop)
    ex_queried,         \* the selectors queried, in order
    ex_result,          \* the value of the field so far
    ex_pc,              \* loop, returned, raised
    \* ---- scrape_job_details / scrape_product_details on the records ----
    en_site,            \* whose enrichment pass: linkedin or mercadolibre
    en_input,           \* the argument as the caller gave it (jobs, product_urls)
    en_jobs,            \* the list jobs as it is now (records are updated in place)
    en_max,             \* max_details / self.max_products
    en_i,               \* loop index i
    en_pc,              \* start, loop, returned, returned_from_except, raised
    en_outcomes,        \* per iteration: what happened on the detail page
    en_result,          \* what the pass returned
    \* ---- MercadoLibreScraper._handle_bot_detection on one loaded page ----
    bd_captcha,         \* a CAPTCHA selector matches on the page
    bd_indicators,      \* the categories whose indicator texts the body contains
    bd_text_length,     \* len(page_text.strip())
    bd_raises,          \* the page query that raises, if one does
    bd_pc,              \* captcha_check, text_check, starved_check, returned
    bd_actions,         \* what the detector did about the page, in order
    bd_loads,           \* how many times the page was loaded
    \* ---- tasks that call start() / create_context() on one BrowserManager ----
    cs_via,             \* per task: the method it calls, start or create_context
    cs_pc,              \* per task: idle, driver_starting (suspended at line 23),
                        \* launching (suspended at line 24), done, raised
    cs_began_during,    \* per task: where the other tasks were when its call began
    cs_playwright,      \* self.playwright: the driver it refers to, or 0 (None)
    cs_browser,         \* self.browser: the browser it refers to, or 0 (None)
    cs_drivers,         \* the Playwright drivers that run
    cs_browsers,        \* the browser processes that run
    cs_launches,        \* chromium.launch calls that succeeded
    cs_closed           \* close() was called after the tasks

retryVars == <<max_retries, delay, backoff, attempt, current_delay,
               last_exception, retry_pc, retry_trace, retry_log, raised>>

poolVars == <<size, pages, available_pages, pool_pc, pages_opened>>

taskVars == <<task_pc, task_i, task_page, task_attempt, task_detail,
              task_gets, task_returns, task_last>>

pagVars == <<max_products, page_number, products_scraped,
             consecutive_empty_pages, products, pag_pc, iterations, last_page,
             stop_reason, term_page, term_result, pag_site, pag_attempt,
             pag_trace>>

runVars == <<site, n_terms, run_pc, term_i, run_attempt, all_products,
             term_status, term_records, run_trace, run_result,
             scraped_products, browser_manager, chromium>>

detVars == <<details_mode, max_details, det_pc, det_i, det_visits, det_page,
             det_context, detail_urls>>

mgrVars == <<manager_calls>>

ddVars == <<dd_site, batch_a, batch_b, dd_pc, dedup_once, dedup_twice>>

exVars == <<ex_field, ex_locators, ex_i, ex_queried, ex_result, ex_pc>>

enVars == <<en_site, en_input, en_jobs, en_max, en_i, en_pc, en_outcomes,
            en_result>>

bdVars == <<bd_captcha, bd_indicators, bd_text_length, bd_raises, bd_pc,
            bd_actions, bd_loads>>

csVars == <<cs_via, cs_pc, cs_began_during, cs_playwright, cs_browser,
            cs_drivers, cs_browsers, cs_launches, cs_closed>>

vars == <<retryVars, poolVars, taskVars, pagVars, runVars, detVars, mgrVars,
          ddVars, exVars, enVars, bdVars, csVars>>

-----------------------------------------------------------------------------
(* Bounds of the model *)

MaxRetriesBound == 3
MaxDelayBound == 3
MaxBackoffBound == 2
MaxPoolSize == 2        \* pool sizes 1..MaxPoolSize
MaxUrls == 2            \* detail URLs each task works through
MaxProductsBound == 3   \* self.max_products ranges over 1..MaxProductsBound
MaxPerPage == 2         \* accepted records of one result page: 0..MaxPerPage
MaxTerms == 2           \* a run has 1..MaxTerms search terms
MaxDetailsBound == 2    \* max_details of a direct call: 0..MaxDetailsBound
MaxCalls == 4           \* calls made on a BrowserManager by its caller
MaxContexts == 2        \* contexts the body of managed_browser asks for
MaxBatch == 2           \* a batch given to _remove_duplicates has 0..MaxBatch records
MaxLocators == 3        \* an extractor has 1..MaxLocators selectors
MaxDetailUrls == 3      \* scrape_product_details is given 0..MaxDetailUrls URLs
MaxJobs == 2            \* the enrichment pass is given 0..MaxJobs records
MaxTextLength == 101    \* the body text of a page has 0..MaxTextLength characters
MaxStarters == 2        \* tasks that call start() or create_context() on one manager

-----------------------------------------------------------------------------
(* Helpers *)

RECURSIVE Pow(_, _)
Pow(b, e) == IF e = 0 THEN 1 ELSE b * Pow(b, e - 1)

\* the lists of at most n elements of S
SeqsUpTo(S, n) == UNION {[1..k -> S] : k \in 0..n}

RECURSIVE SelectSeqMap(_, _)
\* the second components of the events of kind k in trace s, in order
SelectSeqMap(s, k) ==
    IF s = <<>> THEN <<>>
    ELSE IF Head(s)[1] = k THEN <<Head(s)[2]>> \o SelectSeqMap(Tail(s), k)
         ELSE SelectSeqMap(Tail(s), k)

-----------------------------------------------------------------------------
(* retry_async (core/utils.py 17-41)                                       *)

\* An exception object: the call of func that raised it, and the attributes
\* that were attached to it after it was raised (name, value pairs).
NoException == [origin |-> 0, tags |-> {}]

\* The exception raised by the n-th call of func: a fresh object, no tags.
FuncException(n) == [origin |-> n, tags |-> {}]

\* number of times func was invoked
Calls == Len(SelectSeqMap(retry_trace, "call"))

\* the durations of the asyncio.sleep calls, in order
Sleeps == SelectSeqMap(retry_trace, "sleep")

\* line 29, as a bug would have it: only the first failure is remembered
KeepFirstException(last, e) == IF last = NoException THEN e ELSE last

\* line 29: last_exception = e
RecordException(last, e) == e

\* line 31, as a bug would have it: range(max_retries) attempts
IsLastAttemptOffByOne(a, m) == a + 1 >= m

\* line 31: if attempt == max_retries
IsLastAttempt(a, m) == a = m

\* line 37, as a bug would have it: additive growth
NextDelayAdditive(d, b) == d + b

\* line 37: current_delay *= backoff
NextDelay(d, b) == d * b

RetryStart ==
    /\ max_retries \in 0..MaxRetriesBound
    /\ delay \in 1..MaxDelayBound
    /\ backoff \in 1..MaxBackoffBound
    /\ attempt = 0
    /\ current_delay = delay                 \* line 23
    /\ last_exception = NoException          \* line 22
    /\ retry_pc = "calling"
    /\ retry_trace = <<>>
    /\ retry_log = <<>>
    /\ raised = NoException

\* the wrapper is not in use: one fixed configuration, already returned
RetryIdle ==
    /\ max_retries = 0 /\ delay = 1 /\ backoff = 1 /\ attempt = 0
    /\ current_delay = 1 /\ last_exception = NoException
    /\ retry_pc = "returned" /\ retry_trace = <<>> /\ retry_log = <<>>
    /\ raised = NoException

\* lines 26-27: func is awaited and returns; the wrapper returns its value
RetryFuncReturns ==
    /\ retry_pc = "calling"
    /\ retry_trace' = Append(retry_trace, <<"call", "ok">>)
    /\ retry_pc' = "returned"
    /\ UNCHANGED <<max_retries, delay, backoff, attempt, current_delay,
                   last_exception, retry_log, raised>>
    /\ UNCHANGED <<poolVars, taskVars, pagVars, runVars, detVars, mgrVars, ddVars, exVars, enVars,
                   bdVars, csVars>>

\* lines 26-36, not the last attempt: func raises, a warning is logged and
\* the wrapper goes to sleep for current_delay
RetryFuncRaises ==
    /\ retry_pc = "calling"
    /\ ~IsLastAttempt(attempt, max_retries)
    /\ LET e == FuncException(Calls + 1) IN
         last_exception' = RecordException(last_exception, e)
    /\ retry_log' = Append(retry_log, <<"warning", attempt + 1>>)
    /\ retry_trace' = retry_trace \o <<<<"call", "fail">>, <<"sleep", current_delay>>>>
    /\ retry_pc' = "sleeping"
    /\ UNCHANGED <<max_retries, delay, backoff, attempt, current_delay, raised>>
    /\ UNCHANGED <<poolVars, taskVars, pagVars, runVars, detVars, mgrVars, ddVars, exVars, enVars,
                   bdVars, csVars>>

\* lines 26-33, the last attempt: func raises, an error is logged and
\* last_exception is raised
RetryFuncRaisesLast ==
    /\ retry_pc = "calling"
    /\ IsLastAttempt(attempt, max_retries)
    /\ LET e == FuncException(Calls + 1) IN
         /\ last_exception' = RecordException(last_exception, e)
         /\ raised' = RecordException(last_exception, e)
    /\ retry_log' = Append(retry_log, <<"error", max_retries>>)
    /\ retry_trace' = Append(retry_trace, <<"call", "fail">>)
    /\ retry_pc' = "raised"
    /\ UNCHANGED <<max_retries, delay, backoff, attempt, current_delay>>
    /\ UNCHANGED <<poolVars, taskVars, pagVars, runVars, detVars, mgrVars, ddVars, exVars, enVars,
                   bdVars, csVars>>

\* lines 36-37 and the loop header: the sleep ends, the delay grows, next attempt
RetrySleepDone ==
    /\ retry_pc = "sleeping"
    /\ current_delay' = NextDelay(current_delay, backoff)
    /\ attempt' = attempt + 1
    /\ retry_pc' = "calling"
    /\ UNCHANGED <<max_retries, delay, backoff, last_exception, retry_trace,
                   retry_log, raised>>
    /\ UNCHANGED <<poolVars, taskVars, pagVars, runVars, detVars, mgrVars, ddVars, exVars, enVars,
                   bdVars, csVars>>

NextRetry ==
    \/ RetryFuncReturns
    \/ RetryFuncRaises
    \/ RetryFuncRaisesLast
    \/ RetrySleepDone

-----------------------------------------------------------------------------
(* PagePool (core/browser.py 129-160) and the loop that uses it,           *)
(* scrape_product_details (scrapers/mercadolibre/scraper.py 515-543).      *)
(* The loop body is run by every task of Tasks on one shared pool.         *)

Tasks == {"t1", "t2", "t3"}

NoPage == 0

\* retry_async(max_retries=2, ...) around _scrape_single_product_detail
DetailMaxRetries == 2

\* the pages of a sequence, as a set
Range(q) == {q[k] : k \in 1..Len(q)}

\* the tasks that hold a page
Leases == {t \in Tasks : task_page[t] # NoPage}

\* asyncio.Queue.get() suspends the caller while the queue is empty
QueueCanGet(q) == q # <<>>

\* Queue.get() hands out the oldest item
QueueHead(q) == Head(q)

\* Queue.get(), as a bug would have it: the page is read but stays queued
QueueAfterPeek(q) == q

\* Queue.get() removes the item it hands out
QueueAfterGet(q) == Tail(q)

\* Queue.put(page): the queue is unbounded, put never suspends
QueueAfterPut(q, page) == Append(q, page)

PoolIdle ==
    /\ size = 1 /\ pages = <<>> /\ available_pages = <<>>
    /\ pool_pc = "closed" /\ pages_opened = 0
    /\ task_pc = [t \in Tasks |-> "done"]
    /\ task_i = [t \in Tasks |-> 0]
    /\ task_page = [t \in Tasks |-> NoPage]
    /\ task_attempt = [t \in Tasks |-> 0]
    /\ task_detail = [t \in Tasks |-> "unset"]
    /\ task_gets = [t \in Tasks |-> 0]
    /\ task_returns = [t \in Tasks |-> 0]
    /\ task_last = [t \in Tasks |-> <<NoPage, NoPage>>]

\* PagePool.__init__ (130-134), before initialize; every task before its loop
PoolStart ==
    /\ size \in 1..MaxPoolSize
    /\ pages = <<>> /\ available_pages = <<>>
    /\ pool_pc = "new" /\ pages_opened = 0
    /\ task_pc = [t \in Tasks |-> "loop"]
    /\ task_i = [t \in Tasks |-> 0]
    /\ task_page = [t \in Tasks |-> NoPage]
    /\ task_attempt = [t \in Tasks |-> 0]
    /\ task_detail = [t \in Tasks |-> "unset"]
    /\ task_gets = [t \in Tasks |-> 0]
    /\ task_returns = [t \in Tasks |-> 0]
    /\ task_last = [t \in Tasks |-> <<NoPage, NoPage>>]

\* PagePool.initialize (136-143): size pages are opened, kept in self.pages
\* and put in the queue. The caller awaits it before the loop starts (516).
PoolInitialize ==
    /\ pool_pc = "new"
    /\ pages' = [k \in 1..size |-> pages_opened + k]
    /\ available_pages' = [k \in 1..size |-> pages_opened + k]
    /\ pages_opened' = pages_opened + size
    /\ pool_pc' = "ready"
    /\ UNCHANGED <<size, taskVars, retryVars, pagVars, runVars, detVars, mgrVars, ddVars, exVars, enVars,
                   bdVars, csVars>>

\* get_page, as a bug would have it: a page is opened when none is available
PoolGetPageCreating(t) ==
    /\ task_pc[t] = "loop"
    /\ pool_pc = "ready"
    /\ LET fresh == ~QueueCanGet(available_pages)
           page == IF fresh THEN pages_opened + 1 ELSE QueueHead(available_pages)
       IN /\ task_page' = [task_page EXCEPT ![t] = page]
          /\ task_last' = [task_last EXCEPT ![t] = <<page, @[2]>>]
          /\ available_pages' = IF fresh THEN available_pages
                                ELSE QueueAfterGet(available_pages)
          /\ pages_opened' = IF fresh THEN pages_opened + 1 ELSE pages_opened
    /\ task_gets' = [task_gets EXCEPT ![t] = @ + 1]
    /\ task_attempt' = [task_attempt EXCEPT ![t] = 0]
    /\ task_pc' = [task_pc EXCEPT ![t] = "scraping"]
    /\ UNCHANGED <<size, pages, pool_pc, task_i, task_detail, task_returns,
                   retryVars, pagVars, runVars, detVars, mgrVars, ddVars, exVars, enVars,
                   bdVars, csVars>>

\* line 524, page = await page_pool.get_page() (145-149): the task is
\* suspended until the queue holds a page, and takes the oldest one
PoolGetPage(t) ==
    /\ task_pc[t] = "loop"
    /\ pool_pc = "ready"
    /\ QueueCanGet(available_pages)
    /\ LET page == QueueHead(available_pages)
       IN /\ task_page' = [task_page EXCEPT ![t] = page]
          /\ task_last' = [task_last EXCEPT ![t] = <<page, @[2]>>]
    /\ available_pages' = QueueAfterGet(available_pages)
    /\ task_gets' = [task_gets EXCEPT ![t] = @ + 1]
    /\ task_attempt' = [task_attempt EXCEPT ![t] = 0]
    /\ task_pc' = [task_pc EXCEPT ![t] = "scraping"]
    /\ UNCHANGED <<size, pages, pool_pc, pages_opened, task_i, task_detail,
                   task_returns, retryVars, pagVars, runVars, detVars, mgrVars, ddVars, exVars, enVars,
                   bdVars, csVars>>

\* What the try body of _scrape_single_product_detail (557-572) can do:
\* return a detail, find the page or the detail invalid, or fail with an
\* exception (page.goto timing out, a parser error).
DetailBodyOutcomes == {"detail", "invalid", "exception"}

\* _scrape_single_product_detail, as a bug would have it: no except clause
SingleProductDetailPropagating(o) ==
    CASE o = "detail" -> "detail"
      [] o = "invalid" -> "none"
      [] o = "exception" -> "raise"

\* _scrape_single_product_detail (556-576): the detail, or None when the
\* page or the detail is invalid, and None as well when the body raised
SingleProductDetailResult(o) ==
    CASE o = "detail" -> "detail"
      [] o = "invalid" -> "none"
      [] o = "exception" -> "failed"

\* the position after the loop body: the next iteration, or past the loop
AfterIteration(i) == IF i + 1 < MaxUrls THEN "loop" ELSE "done"

\* line 525: one invocation of _scrape_single_product_detail by its
\* retry_async wrapper. A raise is retried, and after the last attempt it
\* reaches the except clause of the loop (539-541), which continues with
\* the next URL.
TaskScrapeSingleProductDetail(t) ==
    /\ task_pc[t] = "scraping"
    /\ \E o \in DetailBodyOutcomes :
         LET r == SingleProductDetailResult(o) IN
         IF r # "raise"
         THEN /\ task_detail' = [task_detail EXCEPT ![t] = r]
              /\ task_pc' = [task_pc EXCEPT ![t] = "scraped"]
              /\ UNCHANGED <<task_attempt, task_i>>
         ELSE IF ~IsLastAttempt(task_attempt[t], DetailMaxRetries)
         THEN /\ task_attempt' = [task_attempt EXCEPT ![t] = @ + 1]
              /\ UNCHANGED <<task_detail, task_pc, task_i>>
         ELSE /\ task_pc' = [task_pc EXCEPT ![t] = AfterIteration(task_i[t])]
              /\ task_i' = [task_i EXCEPT ![t] = @ + 1]
              /\ UNCHANGED <<task_detail, task_attempt>>
    /\ UNCHANGED <<poolVars, task_page, task_gets, task_returns, task_last,
                   retryVars, pagVars, runVars, detVars, mgrVars, ddVars, exVars, enVars,
                   bdVars, csVars>>

\* lines 527-537: the detail is kept when there is one, the page goes back
\* to the pool (return_page, 151-154), and after the delay the loop goes on
PoolReturnPage(t) ==
    /\ task_pc[t] = "scraped"
    /\ available_pages' = QueueAfterPut(available_pages, task_page[t])
    /\ task_last' = [task_last EXCEPT ![t] = <<@[1], task_page[t]>>]
    /\ task_page' = [task_page EXCEPT ![t] = NoPage]
    /\ task_returns' = [task_returns EXCEPT ![t] = @ + 1]
    /\ task_pc' = [task_pc EXCEPT ![t] = AfterIteration(task_i[t])]
    /\ task_i' = [task_i EXCEPT ![t] = @ + 1]
    /\ UNCHANGED <<size, pages, pool_pc, pages_opened, task_attempt,
                   task_detail, task_gets, retryVars, pagVars, runVars, detVars, mgrVars, ddVars, exVars, enVars,
                   bdVars, csVars>>

\* line 543, page_pool.close_all() (156-160), after the loop
PoolCloseAll ==
    /\ pool_pc = "ready"
    /\ \A t \in Tasks : task_pc[t] = "done"
    /\ pool_pc' = "closed"
    /\ UNCHANGED <<size, pages, available_pages, pages_opened, taskVars,
                   retryVars, pagVars, runVars, detVars, mgrVars, ddVars, exVars, enVars,
                   bdVars, csVars>>

NextPool ==
    \/ PoolInitialize
    \/ \E t \in Tasks : PoolGetPage(t)
    \/ \E t \in Tasks : TaskScrapeSingleProductDetail(t)
    \/ \E t \in Tasks : PoolReturnPage(t)
    \/ PoolCloseAll

-----------------------------------------------------------------------------
(* MercadoLibreScraper._scrape_search_term                                 *)
(* (scrapers/mercadolibre/scraper.py 126-203) under its retry_async        *)
(* wrapper, and LinkedInJobsScraper._scrape_search_term                    *)
(* (scrapers/linkedin/scraper.py 79-128), for one search term              *)

Sites == {"mercadolibre", "linkedin"}

\* @retry_async(max_retries=3, delay=2, backoff=2) on _scrape_search_term
TermMaxRetries == 3

\* line 148: max_empty_pages = 2
max_empty_pages == 2

\* More pages than any invocation processes: it keeps the page counter of
\* the model finite whatever the loop does.
PageCap == MaxProductsBound * max_empty_pages + max_empty_pages

Min(a, b) == IF a < b THEN a ELSE b

\* a result page as the loop sees it: the number of records that
\* _extract_products_from_page_robust accepts (it returns [] on any error),
\* whether _get_next_page_url finds a next-page link (None on any error),
\* and whether page.goto to that link succeeds
PageSources ==
    [n : 0..MaxPerPage, has_next : BOOLEAN, nav_ok : BOOLEAN]

NoPageSeen == [n |-> 0, has_next |-> FALSE, nav_ok |-> FALSE]

\* the records accepted on page p: n records, identified by page and rank
PageProducts(p, n) == [k \in 1..n |-> <<p, k>>]

\* line 150: the loop condition
WhileCondition(scraped, empty) ==
    scraped < max_products /\ empty < max_empty_pages

\* lines 159-167, as a bug would have it: the counter is never incremented
NextEmptyCountStuck(empty, n) == IF n = 0 THEN empty ELSE 0

\* lines 159-167, as a bug would have it: the counter is never reset
NextEmptyCountNoReset(empty, n) == IF n = 0 THEN empty + 1 ELSE empty

\* lines 159-167: an empty page increments the counter, another resets it
NextEmptyCount(empty, n) == IF n = 0 THEN empty + 1 ELSE 0

\* line 163: if consecutive_empty_pages >= max_empty_pages (empty page only)
EmptyLimitReached(empty, n) == n = 0 /\ empty >= max_empty_pages

\* line 174, as a bug would have it: strictly more than the maximum
MaxExceeded(scraped) == scraped > max_products

\* line 174: if products_scraped >= self.max_products
MaxReached(scraped) == scraped >= max_products

\* line 169, as a bug would have it: the count is not updated
ProductsScrapedLost(scraped, n) == scraped

\* line 169: products_scraped += len(page_products)
ProductsScraped(scraped, n) == scraped + n

\* line 197, as a bug would have it: return products
TruncateNothing(list, m) == list

\* the events of an invocation whose page.goto raised, as a bug would have
\* it: page.close() at the end of the try block and not in a finally clause
SearchGotoRaisedPageLeftOpen == <<"new_page", "goto_search_raises">>

\* lines 129, 137 and 199-203: the page is opened, page.goto raises, the
\* except clause raises again and the finally clause closes the page
SearchGotoRaised == <<"new_page", "goto_search_raises", "close">>

\* line 197: products[:self.max_products]
Truncate(list, m) == SubSeq(list, 1, Min(Len(list), m))

PagIdle ==
    /\ max_products = 1 /\ page_number = 0 /\ products_scraped = 0
    /\ consecutive_empty_pages = 0 /\ products = <<>> /\ pag_pc = "returned"
    /\ iterations = 0 /\ last_page = NoPageSeen /\ stop_reason = "none"
    /\ term_page = "none" /\ term_result = <<>>
    /\ pag_site = "mercadolibre" /\ pag_attempt = 0 /\ pag_trace = <<>>

\* the scrape of the term is called (mercadolibre 127-130, linkedin 79-82);
\* max_products stands for self.max_products, and for max_jobs of linkedin
PagStart ==
    /\ max_products \in 1..MaxProductsBound
    /\ page_number = 0 /\ products_scraped = 0
    /\ consecutive_empty_pages = 0 /\ products = <<>> /\ pag_pc = "start"
    /\ iterations = 0 /\ last_page = NoPageSeen /\ stop_reason = "none"
    /\ term_page = "none" /\ term_result = <<>>
    /\ pag_site \in Sites /\ pag_attempt = 0 /\ pag_trace = <<>>

\* lines 129-147: the page is opened, the search URL is loaded and checked.
\* context.new_page() (129, outside the try) or page.goto (137) may raise;
\* _handle_bot_detection and _verify_search_page_loaded never raise.
TermOpenSearchPage ==
    /\ pag_pc = "start"
    /\ pag_site = "mercadolibre"
    /\ \E o \in {"new_page_raises", "goto_raises", "not_loaded", "loaded"} :
         CASE o = "new_page_raises" ->
                /\ pag_pc' = "raised" /\ term_page' = "none"
                /\ pag_trace' = pag_trace \o <<"new_page_raises">>
                /\ UNCHANGED <<page_number, stop_reason>>
           [] o = "goto_raises" ->                    \* 199-203: raise, page.close()
                /\ pag_pc' = "raised" /\ term_page' = "closed"
                /\ pag_trace' = pag_trace \o SearchGotoRaised
                /\ UNCHANGED <<page_number, stop_reason>>
           [] o = "not_loaded" ->                     \* 141-143: return [], page.close()
                /\ pag_pc' = "returned" /\ term_page' = "closed"
                /\ pag_trace' = pag_trace \o <<"new_page", "goto_search", "close">>
                /\ stop_reason' = "not_loaded"
                /\ UNCHANGED page_number
           [] o = "loaded" ->                         \* 145-148
                /\ pag_pc' = "loop" /\ term_page' = "open"
                /\ pag_trace' = pag_trace \o <<"new_page", "goto_search">>
                /\ page_number' = 1
                /\ UNCHANGED stop_reason
    /\ UNCHANGED <<max_products, products_scraped, consecutive_empty_pages,
                   products, iterations, last_page, term_result, pag_site,
                   pag_attempt>>
    /\ UNCHANGED <<retryVars, poolVars, taskVars, runVars, detVars, mgrVars,
                   ddVars, exVars, enVars, bdVars, csVars>>

\* lines 150-194: the loop condition and one iteration of the loop, on a
\* result page src
TermLoopIteration ==
    /\ pag_pc = "loop"
    /\ page_number <= PageCap
    /\ IF ~WhileCondition(products_scraped, consecutive_empty_pages)
       THEN /\ pag_pc' = "after_loop"
            /\ stop_reason' = "while_condition"
            /\ UNCHANGED <<page_number, products_scraped,
                           consecutive_empty_pages, products, iterations,
                           last_page, pag_trace>>
       ELSE \E src \in PageSources :
            LET empty == NextEmptyCount(consecutive_empty_pages, src.n)
                scraped == ProductsScraped(products_scraped, src.n)
                stop == IF EmptyLimitReached(empty, src.n) THEN "empty_limit"  \* 163-165
                        ELSE IF MaxReached(scraped) THEN "max_reached"        \* 174-176
                        ELSE IF ~src.has_next THEN "no_next"                  \* 179-182
                        ELSE IF ~src.nav_ok THEN "nav_failed"                 \* 188-194
                        ELSE "none"
            IN /\ iterations' = iterations + 1
               /\ last_page' = src
               /\ consecutive_empty_pages' = empty
               /\ products' = products \o PageProducts(page_number, src.n)     \* 168
               /\ products_scraped' = scraped                                  \* 169
               /\ stop_reason' = stop
               /\ page_number' = IF stop = "none" THEN page_number + 1         \* 191
                                 ELSE page_number
               /\ pag_trace' = CASE stop = "none" -> Append(pag_trace, "goto_next")      \* 189
                                 [] stop = "nav_failed" ->
                                        Append(pag_trace, "goto_next_raises")           \* 192-194
                                 [] OTHER -> pag_trace
               /\ pag_pc' = IF stop = "none" THEN "loop" ELSE "after_loop"
    /\ UNCHANGED <<max_products, term_page, term_result, pag_site, pag_attempt>>
    /\ UNCHANGED <<retryVars, poolVars, taskVars, runVars, detVars, mgrVars,
                   ddVars, exVars, enVars, bdVars, csVars>>

\* lines 196-197 and 202-203: the list is cut to max_products and returned,
\* the page is closed
TermReturn ==
    /\ pag_pc = "after_loop"
    /\ term_result' = Truncate(products, max_products)
    /\ term_page' = "closed"
    /\ pag_trace' = Append(pag_trace, "close")
    /\ pag_pc' = "returned"
    /\ UNCHANGED <<max_products, page_number, products_scraped,
                   consecutive_empty_pages, products, iterations, last_page,
                   stop_reason, pag_site, pag_attempt>>
    /\ UNCHANGED <<retryVars, poolVars, taskVars, runVars, detVars, mgrVars,
                   ddVars, exVars, enVars, bdVars, csVars>>

\* utils.py 25-37 around the mercadolibre scrape: the invocation raised, the
\* wrapper sleeps and calls the function again, with fresh locals
TermRetry ==
    /\ pag_pc = "raised"
    /\ pag_site = "mercadolibre"
    /\ ~IsLastAttempt(pag_attempt, TermMaxRetries)
    /\ pag_attempt' = pag_attempt + 1
    /\ pag_trace' = Append(pag_trace, "sleep")
    /\ pag_pc' = "start"
    /\ term_page' = "none"
    /\ UNCHANGED <<max_products, page_number, products_scraped,
                   consecutive_empty_pages, products, iterations, last_page,
                   stop_reason, term_result, pag_site>>
    /\ UNCHANGED <<retryVars, poolVars, taskVars, runVars, detVars, mgrVars,
                   ddVars, exVars, enVars, bdVars, csVars>>

\* linkedin/parser.py 56 and 67, as a bug would have it: no slice
FindJobElementsAll(found, max_jobs) == found

\* linkedin/parser.py 40-74, find_job_elements(page, max_jobs): of the found
\* elements the first max_jobs (elements[:max_jobs], job_links[:max_jobs])
FindJobElements(found, max_jobs) == Min(found, max_jobs)

\* linkedin 81-96: the page is opened (81, outside the try),
\* _handle_access_and_login (130-155, _auto_login 157-179) loads the jobs
\* page and may log in, then the search URL is loaded (94). Whatever raises
\* inside the try makes the method return [] (124-126); finally page.close()
JobsOpenSearchPage ==
    /\ pag_pc = "start"
    /\ pag_site = "linkedin"
    /\ \E o \in {"new_page_raises", "access_raises", "login_raises",
                 "login_rejected", "search_raises", "loaded"} :
         LET events ==
               CASE o = "new_page_raises" -> <<"new_page_raises">>
                 [] o = "access_raises" -> <<"new_page", "goto_jobs_raises", "close">>
                 [] o = "login_raises" ->
                      <<"new_page", "goto_jobs", "goto_login_raises", "close">>
                 [] o = "login_rejected" ->
                      <<"new_page", "goto_jobs", "goto_login", "close">>
                 [] o = "search_raises" ->
                      <<"new_page", "goto_jobs", "goto_search_raises", "close">>
                 [] o = "loaded" -> <<"new_page", "goto_jobs", "goto_search">>
         IN /\ pag_trace' = pag_trace \o events
            /\ pag_pc' = CASE o = "new_page_raises" -> "raised"
                           [] o = "loaded" -> "jobs"
                           [] OTHER -> "returned"
            /\ term_page' = CASE o = "new_page_raises" -> "none"
                              [] o = "loaded" -> "open"
                              [] OTHER -> "closed"
    /\ UNCHANGED <<max_products, page_number, products_scraped,
                   consecutive_empty_pages, products, iterations, last_page,
                   stop_reason, term_result, pag_site, pag_attempt>>
    /\ UNCHANGED <<retryVars, poolVars, taskVars, runVars, detVars, mgrVars,
                   ddVars, exVars, enVars, bdVars, csVars>>

\* linkedin 98-122 and 127-128: find_job_elements gives at most max_jobs of
\* the elements found; each is parsed, and the valid ones (parse_job_element
\* returns None for the others) are returned; page.close()
JobsExtract ==
    /\ pag_pc = "jobs"
    /\ \E found \in 0..(MaxPerPage + 1) :
         LET taken == FindJobElements(found, max_products)
         IN \E valid \in SUBSET (1..taken) :
              /\ products' = SelectSeq(PageProducts(1, taken),
                                       LAMBDA e : e[2] \in valid)
              /\ term_result' = products'
    /\ pag_trace' = Append(pag_trace, "close")
    /\ term_page' = "closed"
    /\ pag_pc' = "returned"
    /\ UNCHANGED <<max_products, page_number, products_scraped,
                   consecutive_empty_pages, iterations, last_page,
                   stop_reason, pag_site, pag_attempt>>
    /\ UNCHANGED <<retryVars, poolVars, taskVars, runVars, detVars, mgrVars,
                   ddVars, exVars, enVars, bdVars, csVars>>

NextPaginate ==
    \/ TermOpenSearchPage
    \/ TermLoopIteration
    \/ TermReturn
    \/ TermRetry
    \/ JobsOpenSearchPage
    \/ JobsExtract

-----------------------------------------------------------------------------
(* Records and _remove_duplicates                                          *)
(* (mercadolibre/scraper.py 75-91, linkedin/scraper.py 181-193).           *)
(* A string is the sequence of its characters.                             *)

\* the sentinel of ProductData.url_producto
NA == <<"N", "/", "A">>

\* the sentinel of JobData.url_empleo
NoEncontrado ==
    <<"N", "o", " ", "e", "n", "c", "o", "n", "t", "r", "a", "d", "o">>

\* line 86: f"{product.producto}_{product.precio}_{product.vendedor}"
ProductKey(product) ==
    product.producto \o <<"_">> \o product.precio \o <<"_">> \o product.vendedor

RECURSIVE RemoveDuplicatesFrom(_, _, _)
\* lines 80-89: the loop over products, with seen_urls and unique_products
RemoveDuplicatesFrom(list, seen_urls, unique_products) ==
    IF list = <<>> THEN unique_products
    ELSE LET product == Head(list) IN
         IF product.url_producto # NA /\ product.url_producto \notin seen_urls
         THEN RemoveDuplicatesFrom(Tail(list),
                                   seen_urls \cup {product.url_producto},
                                   Append(unique_products, product))
         ELSE IF product.url_producto = NA /\ ProductKey(product) \notin seen_urls
         THEN RemoveDuplicatesFrom(Tail(list),
                                   seen_urls \cup {ProductKey(product)},
                                   Append(unique_products, product))
         ELSE RemoveDuplicatesFrom(Tail(list), seen_urls, unique_products)

\* MercadoLibreScraper._remove_duplicates
RemoveDuplicates(list) == RemoveDuplicatesFrom(list, {}, <<>>)

\* line 187: url_empleo, or f"{job.titulo_puesto}_{job.empresa}"
JobIdentifier(job) ==
    IF job.url_empleo # NoEncontrado THEN job.url_empleo
    ELSE job.titulo_puesto \o <<"_">> \o job.empresa

RECURSIVE RemoveDuplicateJobsFrom(_, _, _)
RemoveDuplicateJobsFrom(list, seen_urls, unique_jobs) ==
    IF list = <<>> THEN unique_jobs
    ELSE LET job == Head(list) IN
         IF JobIdentifier(job) \notin seen_urls
         THEN RemoveDuplicateJobsFrom(Tail(list),
                                      seen_urls \cup {JobIdentifier(job)},
                                      Append(unique_jobs, job))
         ELSE RemoveDuplicateJobsFrom(Tail(list), seen_urls, unique_jobs)

\* LinkedInJobsScraper._remove_duplicates
RemoveDuplicateJobs(list) == RemoveDuplicateJobsFrom(list, {}, <<>>)

-----------------------------------------------------------------------------
(* BrowserManager (core/browser.py 14-117), as the runs use it. A world w  *)
(* is the manager (w.bm) and what runs outside the program (w.env).        *)

NewManager == [playwright |-> FALSE, browser |-> FALSE, contexts |-> <<>>]

\* What runs outside the program: the playwright drivers and browser
\* processes that run, the launches made so far, the contexts that are open,
\* per context the init scripts registered on the context itself, and the
\* operations performed, in order.
NothingRunning ==
    [drivers |-> 0, browsers |-> 0, launches |-> 0, contexts |-> {},
     contexts_created |-> 0, init_scripts |-> <<>>, events |-> <<>>]

\* one operation on the driver, the browser, a context c or a page of c;
\* scripts are the init scripts the operation registers, or those in place
Event(op, c, scripts) == [op |-> op, context |-> c, scripts |-> scripts]

\* the environment after the operations evs
Logged(env, evs) == [env EXCEPT !.events = @ \o evs]

\* start, as a bug would have it: no check of self.playwright
BMStartAlways(w) ==
    [bm |-> [w.bm EXCEPT !.playwright = TRUE, !.browser = TRUE],
     env |-> Logged([w.env EXCEPT !.drivers = @ + 1, !.browsers = @ + 1,
                                  !.launches = @ + 1],
                    <<Event("driver_start", 0, {}), Event("launch", 0, {})>>)]

\* start (20-35), the launch succeeds
BMStart(w) ==
    IF w.bm.playwright THEN w
    ELSE [bm |-> [w.bm EXCEPT !.playwright = TRUE, !.browser = TRUE],
          env |-> Logged([w.env EXCEPT !.drivers = @ + 1, !.browsers = @ + 1,
                                       !.launches = @ + 1],
                         <<Event("driver_start", 0, {}), Event("launch", 0, {})>>)]

\* start (20-24), chromium.launch raises: playwright is set, browser is not
BMStartLaunchFails(w) ==
    [bm |-> [w.bm EXCEPT !.playwright = TRUE],
     env |-> Logged([w.env EXCEPT !.drivers = @ + 1],
                    <<Event("driver_start", 0, {})>>)]

\* _setup_stealth_mode (65-90): a page is opened on the context, the script
\* is registered on that page (page.add_init_script), the page is closed
SetupStealthMode(c) ==
    <<Event("new_page", c, {}),
      Event("page_add_init_script", c, {"stealth_mode"}),
      Event("page_close", c, {})>>

\* create_context (37-63) with a browser: the context is created and kept;
\* _setup_stealth_mode opens a page on it and closes it again
BMCreateContext(w) ==
    LET w1 == IF w.bm.browser THEN w ELSE BMStart(w)
        c == w1.env.contexts_created + 1
    IN [bm |-> [w1.bm EXCEPT !.contexts = Append(@, c)],
        env |-> Logged([w1.env EXCEPT !.contexts = @ \cup {c},
                                      !.contexts_created = c,
                                      !.init_scripts = Append(@, {})],
                       <<Event("new_context", c, {})>> \o SetupStealthMode(c))]

\* context.add_init_script(script) on context c, as the scrapers do in
\* _setup_stealth_headers (mercadolibre 93-95) and _setup_stealth_context
\* (linkedin 66-72)
ContextAddInitScript(w, c, script) ==
    [bm |-> w.bm,
     env |-> Logged([w.env EXCEPT !.init_scripts[c] = @ \cup {script}],
                    <<Event("context_add_init_script", c, {script})>>)]

\* context.new_page() on context c: the page starts with the init scripts
\* registered on its context
ContextNewPage(w, c) ==
    [bm |-> w.bm,
     env |-> Logged(w.env, <<Event("new_page", c, w.env.init_scripts[c])>>)]

\* page.goto(url) on a page of context c that has no init script of its own
PageGoto(w, c) ==
    [bm |-> w.bm,
     env |-> Logged(w.env, <<Event("goto", c, w.env.init_scripts[c])>>)]

\* lines 105-106: for context in self.contexts: await context.close()
CloseContexts(contexts) ==
    [k \in 1..Len(contexts) |-> Event("context_close", contexts[k], {})]

\* close, as a bug would have it: the browser is closed before the contexts
BMCloseBrowserFirst(w) ==
    [bm |-> NewManager,
     env |-> Logged([w.env EXCEPT
                       !.contexts = @ \ {w.bm.contexts[k] : k \in 1..Len(w.bm.contexts)},
                       !.browsers = IF w.bm.browser THEN @ - 1 ELSE @,
                       !.drivers = IF w.bm.playwright THEN @ - 1 ELSE @],
                    (IF w.bm.browser THEN <<Event("browser_close", 0, {})>> ELSE <<>>)
                    \o CloseContexts(w.bm.contexts)
                    \o (IF w.bm.playwright THEN <<Event("driver_stop", 0, {})>> ELSE <<>>))]

\* close (103-117)
BMClose(w) ==
    [bm |-> NewManager,
     env |-> Logged([w.env EXCEPT
                       !.contexts = @ \ {w.bm.contexts[k] : k \in 1..Len(w.bm.contexts)},
                       !.browsers = IF w.bm.browser THEN @ - 1 ELSE @,
                       !.drivers = IF w.bm.playwright THEN @ - 1 ELSE @],
                    CloseContexts(w.bm.contexts)
                    \o (IF w.bm.browser THEN <<Event("browser_close", 0, {})>> ELSE <<>>)
                    \o (IF w.bm.playwright THEN <<Event("driver_stop", 0, {})>> ELSE <<>>))]

-----------------------------------------------------------------------------
(* MercadoLibreScraper.scrape_products (mercadolibre/scraper.py 33-73) and *)
(* LinkedInJobsScraper.scrape_jobs (linkedin/scraper.py 32-64)             *)

\* what a run enters: the main method of a scraper, managed_browser
\* (core/browser.py 120-127) with the body of its caller, or
\* MercadoLibreScraper.scrape_product_details
Entries == Sites \cup {"managed_browser", "product_details"}

ProductA == [url_producto |-> <<"u", "1">>, producto |-> <<"a">>,
             precio |-> <<"1">>, vendedor |-> <<"v">>]
ProductB == [url_producto |-> <<"u", "2">>, producto |-> <<"b">>,
             precio |-> <<"2">>, vendedor |-> <<"v">>]
ProductC == [url_producto |-> NA, producto |-> <<"a">>,
             precio |-> <<"1">>, vendedor |-> <<"v">>]

JobA == [url_empleo |-> <<"u", "1">>, titulo_puesto |-> <<"a">>,
         empresa |-> <<"e">>, ubicacion |-> <<"x">>]
JobB == [url_empleo |-> <<"u", "2">>, titulo_puesto |-> <<"b">>,
         empresa |-> <<"e">>, ubicacion |-> <<"x">>]
JobC == [url_empleo |-> NoEncontrado, titulo_puesto |-> <<"a">>,
         empresa |-> <<"e">>, ubicacion |-> <<"x">>]

\* the lists one scrape of a term may return
TermLists(s) ==
    IF s = "mercadolibre"
    THEN {<<>>, <<ProductA>>, <<ProductA, ProductB>>, <<ProductB, ProductC>>}
    ELSE {<<>>, <<JobA>>, <<JobA, JobB>>, <<JobB, JobC>>}

\* what _remove_duplicates puts in seen_urls for a record
\* (mercadolibre 81-88, linkedin 187-190)
SeenKey(s, r) ==
    IF s = "linkedin" THEN JobIdentifier(r)
    ELSE IF r.url_producto # NA THEN r.url_producto ELSE ProductKey(r)

RECURSIVE Reverse(_)
Reverse(list) ==
    IF list = <<>> THEN <<>> ELSE Append(Reverse(Tail(list)), Head(list))

\* _remove_duplicates, as a bug would have it: unique.insert(0, record)
DeduplicateNewestFirst(s, list) ==
    IF s = "mercadolibre" THEN Reverse(RemoveDuplicates(list))
    ELSE Reverse(RemoveDuplicateJobs(list))

\* _remove_duplicates, as a bug would have it: only consecutive duplicates
\* are dropped
RECURSIVE DeduplicateConsecutive(_, _)
DeduplicateConsecutive(s, list) ==
    IF Len(list) < 2 THEN list
    ELSE IF SeenKey(s, list[1]) = SeenKey(s, list[2])
         THEN DeduplicateConsecutive(s, <<list[1]>> \o Tail(Tail(list)))
         ELSE <<list[1]>> \o DeduplicateConsecutive(s, Tail(list))

\* _remove_duplicates of the scraper that runs
Deduplicate(s, list) ==
    IF s = "mercadolibre" THEN RemoveDuplicates(list) ELSE RemoveDuplicateJobs(list)

World == [bm |-> browser_manager, env |-> chromium]

\* the variables of a run other than the manager and what it controls
runLocals == <<site, n_terms, run_pc, term_i, run_attempt, all_products,
               term_status, term_records, run_trace, run_result,
               scraped_products>>

RunIdle ==
    /\ site = "mercadolibre" /\ n_terms = 1 /\ run_pc = "returned"
    /\ term_i = 0 /\ run_attempt = 0 /\ all_products = <<>>
    /\ term_status = [k \in 1..MaxTerms |-> "pending"]
    /\ term_records = [k \in 1..MaxTerms |-> <<>>]
    /\ run_trace = <<>> /\ run_result = <<>> /\ scraped_products = <<>>
    /\ browser_manager = NewManager /\ chromium = NothingRunning

\* the scraper is constructed (__init__) and the run is entered
RunStart ==
    /\ site \in Entries
    /\ n_terms \in (IF site \in Sites THEN 1..MaxTerms ELSE {1})
    /\ run_pc = "start"
    /\ term_i = 0 /\ run_attempt = 0 /\ all_products = <<>>
    /\ term_status = [k \in 1..MaxTerms |-> "pending"]
    /\ term_records = [k \in 1..MaxTerms |-> <<>>]
    /\ run_trace = <<>> /\ run_result = <<>> /\ scraped_products = <<>>
    /\ browser_manager = NewManager /\ chromium = NothingRunning

\* the exception leaves the run: except (log, raise) and finally
\* browser_manager.close(); nothing is returned and nothing is stored
RunAbort(w) ==
    /\ run_pc' = "raised"
    /\ browser_manager' = BMClose(w).bm
    /\ chromium' = BMClose(w).env
    /\ UNCHANGED <<run_result, scraped_products>>

\* lines 58-62, as a bug would have it: the last two terms are taken for
\* the last one
AfterTermOffByOne(i) == IF i < n_terms - 2 THEN "delay" ELSE "dedupe"

\* after the scrape of term i returned: the delay before the next term, or
\* the deduplication after the last one (lines 58-62)
AfterTerm(i) == IF i < n_terms - 1 THEN "delay" ELSE "dedupe"

\* the init script a scraper registers on its context
ScraperScript(s) ==
    IF s = "mercadolibre" THEN "stealth_headers" ELSE "stealth_context"

\* lines 41-45: start(), create_context() and the scraper's own stealth
\* set-up, context.add_init_script(...), on the new context
RunContext(w) ==
    LET w1 == BMCreateContext(BMStart(w))
    IN ContextAddInitScript(w1, w1.env.contexts_created, ScraperScript(site))

\* lines 41-47: start, create_context, stealth set-up, all_products = []
RunStartBrowser ==
    /\ run_pc = "start"
    /\ site \in Sites
    /\ \E o \in {"ok", "launch_fails", "context_fails"} :
         CASE o = "ok" ->
                /\ browser_manager' = RunContext(World).bm
                /\ chromium' = RunContext(World).env
                /\ run_pc' = "term"
                /\ UNCHANGED <<run_result, scraped_products>>
           [] o = "launch_fails" -> RunAbort(BMStartLaunchFails(World))
           [] o = "context_fails" -> RunAbort(BMStart(World))
    /\ UNCHANGED <<site, n_terms, term_i, run_attempt, all_products,
                   term_status, term_records, run_trace>>
    /\ UNCHANGED <<retryVars, poolVars, taskVars, pagVars, detVars, mgrVars, ddVars, exVars, enVars,
                   bdVars, csVars>>

\* the scrape of term i returned list (lines 52-59)
TermReturned(list, status) ==
    /\ all_products' = all_products \o list
    /\ term_status' = [term_status EXCEPT ![term_i + 1] = status]
    /\ term_records' = [term_records EXCEPT ![term_i + 1] = list]
    /\ run_trace' = Append(run_trace, <<"term", term_i + 1>>)
    /\ run_attempt' = 0
    /\ run_pc' = AfterTerm(term_i)
    /\ UNCHANGED <<run_result, scraped_products, browser_manager, chromium>>

\* mercadolibre, line 52: one invocation of _scrape_search_term by its
\* retry_async wrapper. It returns a list or raises; a raise is retried
\* after a sleep, and the raise of the last attempt leaves scrape_products.
RunScrapeTermMeli ==
    /\ run_pc = "term"
    /\ site = "mercadolibre"
    /\ \/ \E list \in TermLists(site) : TermReturned(list, "ok")
       \/ /\ ~IsLastAttempt(run_attempt, TermMaxRetries)
          /\ run_pc' = "retry_sleep"
          /\ UNCHANGED <<all_products, term_status, term_records, run_trace,
                         run_attempt, run_result, scraped_products,
                         browser_manager, chromium>>
       \/ /\ IsLastAttempt(run_attempt, TermMaxRetries)
          /\ term_status' = [term_status EXCEPT ![term_i + 1] = "failed"]
          /\ RunAbort(World)
          /\ UNCHANGED <<all_products, term_records, run_trace, run_attempt>>
    /\ UNCHANGED <<site, n_terms, term_i>>
    /\ UNCHANGED <<retryVars, poolVars, taskVars, pagVars, detVars, mgrVars, ddVars, exVars, enVars,
                   bdVars, csVars>>

\* utils.py 36-37: the sleep of the wrapper ends, next attempt
RunRetrySleepDone ==
    /\ run_pc = "retry_sleep"
    /\ run_attempt' = run_attempt + 1
    /\ run_pc' = "term"
    /\ UNCHANGED <<site, n_terms, term_i, all_products, term_status,
                   term_records, run_trace, run_result, scraped_products,
                   browser_manager, chromium>>
    /\ UNCHANGED <<retryVars, poolVars, taskVars, pagVars, detVars, mgrVars, ddVars, exVars, enVars,
                   bdVars, csVars>>

\* linkedin, line 48: _scrape_search_term (79-128) is not retried. It
\* returns the jobs, or [] when anything inside its try fails (124-126);
\* context.new_page() (81) is outside the try and its failure leaves
\* scrape_jobs.
RunScrapeTermLinkedIn ==
    /\ run_pc = "term"
    /\ site = "linkedin"
    /\ \/ \E list \in TermLists(site) : TermReturned(list, "ok")
       \/ TermReturned(<<>>, "failed")
       \/ /\ term_status' = [term_status EXCEPT ![term_i + 1] = "fatal"]
          /\ RunAbort(World)
          /\ UNCHANGED <<all_products, term_records, run_trace, run_attempt>>
    /\ UNCHANGED <<site, n_terms, term_i>>
    /\ UNCHANGED <<retryVars, poolVars, taskVars, pagVars, detVars, mgrVars, ddVars, exVars, enVars,
                   bdVars, csVars>>

\* lines 58-59: the delay between two terms ends, next term
RunDelayDone ==
    /\ run_pc = "delay"
    /\ term_i' = term_i + 1
    /\ run_trace' = Append(run_trace, <<"delay", term_i + 1>>)
    /\ run_pc' = "term"
    /\ UNCHANGED <<site, n_terms, run_attempt, all_products, term_status,
                   term_records, run_result, scraped_products,
                   browser_manager, chromium>>
    /\ UNCHANGED <<retryVars, poolVars, taskVars, pagVars, detVars, mgrVars, ddVars, exVars, enVars,
                   bdVars, csVars>>

\* lines 62-66 and 72-73: deduplicate, return, browser_manager.close()
RunDeduplicateAndReturn ==
    /\ run_pc = "dedupe"
    /\ run_result' = Deduplicate(site, all_products)
    /\ run_trace' = Append(run_trace, <<"dedupe", Len(all_products)>>)
    /\ browser_manager' = BMClose(World).bm
    /\ chromium' = BMClose(World).env
    /\ run_pc' = "returned"
    /\ UNCHANGED <<site, n_terms, term_i, run_attempt, all_products,
                   term_status, term_records, scraped_products>>
    /\ UNCHANGED <<retryVars, poolVars, taskVars, pagVars, detVars, mgrVars, ddVars, exVars, enVars,
                   bdVars, csVars>>

\* ---- scrape_linkedin_jobs (linkedin/scraper.py 279-317) after scrape_jobs,
\* ---- and LinkedInJobsScraper.scrape_job_details (195-234)

\* who asks for the enrichment pass: nobody, scrape_linkedin_jobs with
\* include_details=True, or a caller of scrape_job_details(jobs, max_details)
DetailsModes == {"off", "main", "direct"}

\* line 304: max_details=min(20, len(jobs))
DetailsLimit == 20

DetIdle ==
    /\ details_mode = "off" /\ max_details = 0 /\ det_pc = "idle" /\ det_i = 0
    /\ det_visits = <<>> /\ det_page = "none" /\ det_context = 0
    /\ detail_urls = <<>>

\* the URLs a caller may pass to scrape_product_details: url_producto of
\* the products it has, "N/A" for a product without link
DetailUrls == {<<"u", "1">>, <<"u", "2">>, NA}

\* the arguments of the run: include_details, or the max_details of a
\* direct call (only scrape_jobs is followed by an enrichment pass)
DetStart ==
    /\ details_mode \in (IF site = "linkedin" THEN DetailsModes ELSE {"off"})
    /\ max_details \in (IF details_mode = "direct" THEN 0..MaxDetailsBound
                        ELSE IF site = "product_details" THEN 1..MaxDetailsBound
                        ELSE {0})
    /\ det_pc = "idle" /\ det_i = 0
    /\ det_visits = <<>> /\ det_page = "none" /\ det_context = 0
    /\ detail_urls \in (IF site = "product_details"
                        THEN SeqsUpTo(DetailUrls, MaxDetailUrls) ELSE {<<>>})

\* line 208: if job.url_empleo and job.url_empleo != "No encontrado"
HasDetailUrl(job) == job.url_empleo # <<>> /\ job.url_empleo # NoEncontrado

\* line 207: the number of jobs in jobs[:max_details]
DetailsCount(jobs, k) == Min(Len(jobs), k)

\* lines 230-232 when page and context are bound: page.close(), context.close()
DetRelease(w, c) ==
    [bm |-> w.bm,
     env |-> Logged([w.env EXCEPT !.contexts = @ \ {c}],
                    <<Event("page_close", c, {}), Event("context_close", c, {})>>)]

\* lines 297-304 and 197-205: scrape_jobs returned a non-empty list; the
\* enrichment pass is entered, create_context() starts the browser again
\* (close() left the manager without one), the stealth script is registered
\* and the page is opened. When one of these raises, the except clause
\* returns jobs; page is then unbound in the finally clause, the NameError
\* is swallowed there and context.close() is not reached.
DetOpen ==
    /\ run_pc = "returned" /\ run_result # <<>>
    /\ details_mode # "off" /\ det_pc = "idle"
    /\ max_details' = IF details_mode = "main"
                      THEN Min(DetailsLimit, Len(run_result)) ELSE max_details
    /\ \E o \in {"ok", "launch_fails", "context_fails", "page_fails"} :
         LET w1 == BMCreateContext(World)
             c == w1.env.contexts_created
             w2 == ContextAddInitScript(w1, c, ScraperScript(site))
             w == CASE o = "ok" -> ContextNewPage(w2, c)
                    [] o = "launch_fails" -> BMStartLaunchFails(World)
                    [] o = "context_fails" -> BMStart(World)
                    [] o = "page_fails" -> w2
         IN /\ browser_manager' = w.bm
            /\ chromium' = w.env
            /\ det_context' = IF o \in {"ok", "page_fails"} THEN c ELSE 0
            /\ det_page' = IF o = "ok" THEN "open" ELSE "none"
            /\ det_pc' = IF o = "ok" THEN "loop" ELSE "returned"
    /\ UNCHANGED <<details_mode, det_i, det_visits, detail_urls>>
    /\ UNCHANGED <<site, n_terms, run_pc, term_i, run_attempt, all_products,
                   term_status, term_records, run_trace, run_result,
                   scraped_products>>
    /\ UNCHANGED <<retryVars, poolVars, taskVars, pagVars, mgrVars, ddVars, exVars, enVars,
                   bdVars, csVars>>

\* lines 207-222, one iteration: a job with a URL gets its detail page
\* loaded by parser.scrape_job_details (page.goto, parser.py 234); whatever
\* fails there is caught and the loop continues; a job without URL is skipped
DetLoopIteration ==
    /\ det_pc = "loop"
    /\ det_i < DetailsCount(run_result, max_details)
    /\ LET job == run_result[det_i + 1] IN
         IF HasDetailUrl(job)
         THEN /\ chromium' = PageGoto(World, det_context).env
              /\ det_visits' = Append(det_visits, det_i + 1)
         ELSE UNCHANGED <<chromium, det_visits>>
    /\ det_i' = det_i + 1
    /\ UNCHANGED <<details_mode, max_details, det_pc, det_page, det_context,
                   detail_urls>>
    /\ UNCHANGED <<site, n_terms, run_pc, term_i, run_attempt, all_products,
                   term_status, term_records, run_trace, run_result,
                   scraped_products, browser_manager>>
    /\ UNCHANGED <<retryVars, poolVars, taskVars, pagVars, mgrVars, ddVars, exVars, enVars,
                   bdVars, csVars>>

\* lines 224 and 229-232: return jobs; finally page.close(), context.close().
\* browser_manager.close() is not called, here or in scrape_linkedin_jobs.
DetReturn ==
    /\ det_pc = "loop"
    /\ det_i = DetailsCount(run_result, max_details)
    /\ chromium' = DetRelease(World, det_context).env
    /\ det_page' = "closed"
    /\ det_pc' = "returned"
    /\ UNCHANGED <<details_mode, max_details, det_i, det_visits, det_context,
                   detail_urls>>
    /\ UNCHANGED <<site, n_terms, run_pc, term_i, run_attempt, all_products,
                   term_status, term_records, run_trace, run_result,
                   scraped_products, browser_manager>>
    /\ UNCHANGED <<retryVars, poolVars, taskVars, pagVars, mgrVars, ddVars, exVars, enVars,
                   bdVars, csVars>>

\* ---- managed_browser (core/browser.py 120-127)

\* lines 122-125: the manager is started and handed to the body of the
\* "async with"; when start() raises, the finally clause closes the manager
ManagedBrowserEnter ==
    /\ run_pc = "start"
    /\ site = "managed_browser"
    /\ \E o \in {"ok", "launch_fails"} :
         IF o = "ok"
         THEN /\ browser_manager' = BMStart(World).bm
              /\ chromium' = BMStart(World).env
              /\ run_pc' = "body"
              /\ UNCHANGED <<run_result, scraped_products>>
         ELSE RunAbort(BMStartLaunchFails(World))
    /\ UNCHANGED <<site, n_terms, term_i, run_attempt, all_products,
                   term_status, term_records, run_trace>>
    /\ UNCHANGED <<retryVars, poolVars, taskVars, pagVars, detVars, mgrVars, ddVars, exVars, enVars,
                   bdVars, csVars>>

\* the body of the "async with" asks the manager for a context
ManagedBrowserBody ==
    /\ run_pc = "body"
    /\ Len(browser_manager.contexts) < MaxContexts
    /\ browser_manager' = BMCreateContext(World).bm
    /\ chromium' = BMCreateContext(World).env
    /\ UNCHANGED <<runLocals, retryVars, poolVars, taskVars, pagVars, detVars,
                   mgrVars, ddVars, exVars, enVars, bdVars,
                   csVars>>

\* lines 126-127: the body ends, normally or with an exception, and the
\* finally clause closes the manager
ManagedBrowserExit ==
    /\ run_pc = "body"
    /\ \E o \in {"normal", "exception"} :
         IF o = "normal"
         THEN /\ browser_manager' = BMClose(World).bm
              /\ chromium' = BMClose(World).env
              /\ run_pc' = "returned"
              /\ UNCHANGED <<run_result, scraped_products>>
         ELSE RunAbort(World)
    /\ UNCHANGED <<site, n_terms, term_i, run_attempt, all_products,
                   term_status, term_records, run_trace>>
    /\ UNCHANGED <<retryVars, poolVars, taskVars, pagVars, detVars, mgrVars, ddVars, exVars, enVars,
                   bdVars, csVars>>

\* ---- MercadoLibreScraper.scrape_product_details (501-551) as a run

\* lines 505-518: no URL, nothing to do; else start, create_context,
\* stealth set-up and the page pool
ProductDetailsStart ==
    /\ run_pc = "start"
    /\ site = "product_details"
    /\ IF detail_urls = <<>>
       THEN /\ run_pc' = "returned"
            /\ UNCHANGED <<browser_manager, chromium, run_result,
                           scraped_products>>
       ELSE \E o \in {"ok", "launch_fails", "context_fails"} :
              CASE o = "ok" ->
                     /\ browser_manager' = RunContext(World).bm
                     /\ chromium' = RunContext(World).env
                     /\ run_pc' = "details"
                     /\ UNCHANGED <<run_result, scraped_products>>
                [] o = "launch_fails" -> RunAbort(BMStartLaunchFails(World))
                [] o = "context_fails" -> RunAbort(BMStart(World))
    /\ UNCHANGED <<site, n_terms, term_i, run_attempt, all_products,
                   term_status, term_records, run_trace>>
    /\ UNCHANGED <<retryVars, poolVars, taskVars, pagVars, detVars, mgrVars,
                   ddVars, exVars, enVars, bdVars, csVars>>

\* lines 520-541, one iteration over product_urls[:self.max_products]:
\* _scrape_single_product_detail does page.goto(url) (557) on the URL as it
\* is given; it returns the detail or None, and never raises
ProductDetailsIteration ==
    /\ run_pc = "details"
    /\ det_i < DetailsCount(detail_urls, max_details)
    /\ chromium' = PageGoto(World, chromium.contexts_created).env
    /\ det_visits' = Append(det_visits, det_i + 1)
    /\ det_i' = det_i + 1
    /\ UNCHANGED <<details_mode, max_details, det_pc, det_page, det_context,
                   detail_urls>>
    /\ UNCHANGED <<runLocals, browser_manager>>
    /\ UNCHANGED <<retryVars, poolVars, taskVars, pagVars, mgrVars, ddVars,
                   exVars, enVars, bdVars, csVars>>

\* lines 543-551: close_all, return detailed_products, finally close()
ProductDetailsReturn ==
    /\ run_pc = "details"
    /\ det_i = DetailsCount(detail_urls, max_details)
    /\ browser_manager' = BMClose(World).bm
    /\ chromium' = BMClose(World).env
    /\ run_pc' = "returned"
    /\ UNCHANGED <<site, n_terms, term_i, run_attempt, all_products,
                   term_status, term_records, run_trace, run_result,
                   scraped_products>>
    /\ UNCHANGED <<retryVars, poolVars, taskVars, pagVars, detVars, mgrVars,
                   ddVars, exVars, enVars, bdVars, csVars>>

NextRun ==
    \/ RunStartBrowser
    \/ RunScrapeTermMeli
    \/ RunRetrySleepDone
    \/ RunScrapeTermLinkedIn
    \/ RunDelayDone
    \/ RunDeduplicateAndReturn
    \/ DetOpen
    \/ DetLoopIteration
    \/ DetReturn
    \/ ManagedBrowserEnter
    \/ ManagedBrowserBody
    \/ ManagedBrowserExit
    \/ ProductDetailsStart
    \/ ProductDetailsIteration
    \/ ProductDetailsReturn

-----------------------------------------------------------------------------
(* One BrowserManager (core/browser.py 14-117) driven by its caller with   *)
(* any sequence of start(), create_context() and close() calls, and pages  *)
(* the caller opens on the contexts it was given.                          *)

MgrIdle == manager_calls = <<>>

\* the manager made the call and the world is now w
ManagerCalled(call, w) ==
    /\ Len(manager_calls) < MaxCalls
    /\ manager_calls' = Append(manager_calls, call)
    /\ browser_manager' = w.bm
    /\ chromium' = w.env
    /\ UNCHANGED <<runLocals, detVars, retryVars, poolVars, taskVars, pagVars,
                   ddVars, exVars, enVars, bdVars, csVars>>

\* await manager.start() (20-35): nothing happens when self.playwright is
\* set; else the driver is started and chromium launched, which may raise
ManagerStart ==
    \E o \in {"ok", "launch_fails"} :
        /\ browser_manager.playwright => o = "ok"
        /\ ManagerCalled("start", IF o = "ok" THEN BMStart(World)
                                  ELSE BMStartLaunchFails(World))

\* await manager.create_context() (37-63): without a browser start() is
\* called first (39-40). When an earlier launch failed, start() does nothing
\* and self.browser.new_context raises on None (57).
ManagerCreateContext ==
    \E o \in {"ok", "launch_fails"} :
        /\ browser_manager.browser => o = "ok"
        /\ browser_manager.playwright /\ ~browser_manager.browser => o = "launch_fails"
        /\ ManagerCalled("create_context",
                         IF o = "ok" THEN BMCreateContext(World)
                         ELSE IF browser_manager.playwright THEN World
                         ELSE BMStartLaunchFails(World))

\* await manager.close() (103-117)
ManagerClose == ManagerCalled("close", BMClose(World))

\* the caller opens a page on a context it got from create_context and
\* navigates with it: page = await context.new_page(); await page.goto(url)
ManagerOpenPage ==
    \E c \in chromium.contexts :
        ManagerCalled("open_page", PageGoto(ContextNewPage(World, c), c))

NextManager ==
    \/ ManagerStart
    \/ ManagerCreateContext
    \/ ManagerClose
    \/ ManagerOpenPage

-----------------------------------------------------------------------------
(* _remove_duplicates as a function of its input: it is applied to the     *)
(* concatenation of two batches of records, and again to its own output.   *)

\* records as the parsers build them: with the URL of another record, and
\* without URL ("N/A", "No encontrado") with fields that differ
ProductD == [url_producto |-> NA, producto |-> <<"a">>,
             precio |-> <<"1", "_", "2">>, vendedor |-> <<"v">>]
ProductE == [url_producto |-> NA, producto |-> <<"a", "_", "1">>,
             precio |-> <<"2">>, vendedor |-> <<"v">>]
ProductF == [url_producto |-> <<"u", "1">>, producto |-> <<"b">>,
             precio |-> <<"2">>, vendedor |-> <<"w">>]

JobD == [url_empleo |-> <<"u", "1">>, titulo_puesto |-> <<"b">>,
         empresa |-> <<"f">>, ubicacion |-> <<"y">>]
JobE == [url_empleo |-> NoEncontrado, titulo_puesto |-> <<"a">>,
         empresa |-> <<"e">>, ubicacion |-> <<"y">>]

\* the records the batches are made of
DedupRecords(s) ==
    IF s = "mercadolibre"
    THEN {ProductA, ProductC, ProductD, ProductE, ProductF}
    ELSE {JobA, JobC, JobD, JobE}

DedupIdle ==
    /\ dd_site = "mercadolibre" /\ batch_a = <<>> /\ batch_b = <<>>
    /\ dd_pc = "twice" /\ dedup_once = <<>> /\ dedup_twice = <<>>

DedupStart ==
    /\ dd_site \in Sites
    /\ batch_a \in SeqsUpTo(DedupRecords(dd_site), MaxBatch)
    /\ batch_b \in SeqsUpTo(DedupRecords(dd_site), MaxBatch)
    /\ dd_pc = "input" /\ dedup_once = <<>> /\ dedup_twice = <<>>

\* unique = self._remove_duplicates(batch_a + batch_b)
DedupApply ==
    /\ dd_pc = "input"
    /\ dedup_once' = Deduplicate(dd_site, batch_a \o batch_b)
    /\ dd_pc' = "once"
    /\ UNCHANGED <<dd_site, batch_a, batch_b, dedup_twice>>
    /\ UNCHANGED <<retryVars, poolVars, taskVars, pagVars, runVars, detVars,
                   mgrVars, exVars, enVars, bdVars, csVars>>

\* self._remove_duplicates(unique)
DedupApplyAgain ==
    /\ dd_pc = "once"
    /\ dedup_twice' = Deduplicate(dd_site, dedup_once)
    /\ dd_pc' = "twice"
    /\ UNCHANGED <<dd_site, batch_a, batch_b, dedup_once>>
    /\ UNCHANGED <<retryVars, poolVars, taskVars, pagVars, runVars, detVars,
                   mgrVars, exVars, enVars, bdVars, csVars>>

NextDedup ==
    \/ DedupApply
    \/ DedupApplyAgain

-----------------------------------------------------------------------------
(* The field extractors of the parsers: a for loop over an ordered list    *)
(* of selectors (mercadolibre/parser.py 154-254, linkedin/parser.py        *)
(* 90-109) and safe_extract_text (core/utils.py 44-56).                    *)

Fields ==
    {"product_title", "price", "product_url", "seller_name", "free_shipping",
     "image_url", "job_title", "safe_text"}

\* what the extractor returns when no selector gave a value
Sentinel(f) ==
    CASE f = "seller_name" -> "Desconocido"          \* parser.py 221
      [] f = "free_shipping" -> "No"                 \* parser.py 234
      [] f = "job_title" -> "No encontrado"          \* JobData.titulo_puesto
      [] OTHER -> "N/A"                              \* 168, 186, 206, 254; utils 44

\* what the extractor makes of the text a selector gave
TextOf(f) ==
    CASE f = "price" -> "$text"                      \* parser.py 180
      [] f = "free_shipping" -> "Sí"                 \* parser.py 229
      [] OTHER -> "text"

\* What one selector gives on the element: nothing (query_selector returns
\* None), an exception of playwright, a text that the check of the
\* extractor rejects, or a text that it accepts. In the title loop of
\* parse_job_element the lookup of the link (99-106) follows the accepted
\* title inside the same try, and may raise as well.
LocatorOutcomes(f) ==
    CASE f = "job_title" ->
             {"none", "raises", "rejected", "accepted", "accepted_then_raises"}
      [] f \in {"free_shipping", "safe_text"} -> {"none", "raises", "accepted"}
      [] OTHER -> {"none", "raises", "rejected", "accepted"}

\* the selector lists: safe_extract_text has one selector
LocatorLists(f) ==
    IF f = "safe_text" THEN [1..1 -> LocatorOutcomes(f)]
    ELSE UNION {[1..n -> LocatorOutcomes(f)] : n \in 1..MaxLocators}

\* a field value: the selector it came from (0: none) and its text
Unset == [locator |-> 0, text |-> "unset"]

NotFound(f) == [locator |-> 0, text |-> Sentinel(f)]

ValueOf(f, k) == [locator |-> k, text |-> TextOf(f)]

\* the extractors, as a bug would have them: no try around the query
AfterLocatorUncaught(o) ==
    CASE o = "accepted" -> "return"
      [] o \in {"raises", "accepted_then_raises"} -> "raise"
      [] OTHER -> "continue"

\* what the loop does after a selector: return (break) with its value, or
\* continue with the next selector; every exception is caught (except
\* Exception / bare except, then continue; utils: pass)
AfterLocator(o) ==
    CASE o = "accepted" -> "return"
      [] OTHER -> "continue"

ExtractIdle ==
    /\ ex_field = "safe_text" /\ ex_locators = <<"none">> /\ ex_i = 1
    /\ ex_queried = <<1>> /\ ex_result = NotFound("safe_text")
    /\ ex_pc = "returned"

\* the extractor is entered; job_data.titulo_puesto has its default
ExtractStart ==
    /\ ex_field \in Fields
    /\ ex_locators \in LocatorLists(ex_field)
    /\ ex_i = 0 /\ ex_queried = <<>>
    /\ ex_result = (IF ex_field = "job_title" THEN NotFound(ex_field) ELSE Unset)
    /\ ex_pc = "loop"

\* one iteration of the for loop, and the return after the loop when the
\* list is exhausted
ExtractTryLocator ==
    /\ ex_pc = "loop"
    /\ ex_i < Len(ex_locators)
    /\ LET k == ex_i + 1
           o == ex_locators[k]
           assigned == IF o \in {"accepted", "accepted_then_raises"}
                       THEN ValueOf(ex_field, k) ELSE ex_result
           next == AfterLocator(o)
       IN /\ ex_queried' = Append(ex_queried, k)
          /\ ex_i' = k
          /\ ex_pc' = CASE next = "raise" -> "raised"
                        [] next = "return" -> "returned"
                        [] OTHER -> IF k < Len(ex_locators) THEN "loop"
                                    ELSE "returned"
          /\ ex_result' = IF next = "continue" /\ k = Len(ex_locators)
                             /\ ex_field # "job_title"
                          THEN NotFound(ex_field)
                          ELSE assigned
    /\ UNCHANGED <<ex_field, ex_locators>>
    /\ UNCHANGED <<retryVars, poolVars, taskVars, pagVars, runVars, detVars,
                   mgrVars, ddVars, enVars, bdVars, csVars>>

NextExtract == ExtractTryLocator

-----------------------------------------------------------------------------
(* The enrichment pass on the records themselves:                          *)
(* LinkedInJobsScraper.scrape_job_details (linkedin/scraper.py 195-234)    *)
(* with LinkedInParser.scrape_job_details (linkedin/parser.py 222-324),    *)
(* and the loop of MercadoLibreScraper.scrape_product_details (501-551)    *)

\* the default of JobData.descripcion_breve and of the entries of details
NoDisponible ==
    <<"N", "o", " ", "d", "i", "s", "p", "o", "n", "i", "b", "l", "e">>

\* linkedin/scraper.py 216: [:200]
BriefLength == 200

Http == <<"h", "t", "t", "p">>

\* parser.py 231: url.startswith("http")
StartsWithHttp(url) == Len(url) >= Len(Http) /\ SubSeq(url, 1, Len(Http)) = Http

\* a job as the listing page gave it (JobData, parser.py 17-29)
ListedJob(url, title, brief) ==
    [url_empleo |-> url, titulo_puesto |-> title, empresa |-> <<"e">>,
     ubicacion |-> <<"x">>, descripcion_breve |-> brief]

\* the jobs a caller may pass: with a URL, without one, with a URL that is
\* not absolute, with or without a description from the listing page
EnrichJobs ==
    {ListedJob(Http \o <<"1">>, <<"a">>, NoDisponible),
     ListedJob(Http \o <<"2">>, <<"b">>, <<"l", ".", ".", ".">>),
     ListedJob(NoEncontrado, <<"c">>, NoDisponible),
     ListedJob(<<"/", "j">>, <<"d">>, NoDisponible)}

\* the URLs a caller may pass to scrape_product_details
EnrichUrls == {Http \o <<"1">>, Http \o <<"2">>, NA}

\* the text of the description block of a detail page
DescriptionText == <<"d", "e", "s", "c">>

\* what can happen on a detail page, in parser.scrape_job_details:
\* page.goto raises (234); the description is found or not (243-252); then
\* page.wait_for_selector (278), which is in no inner try, raises or not.
\* In _scrape_single_product_detail (553-576): a detail is returned, or None
\* (the page did not load, the detail is empty, or anything raised).
DetailOutcomes(s) ==
    IF s = "linkedin"
    THEN {"goto_raises", "described", "not_described",
          "described_then_raises", "not_described_then_raises"}
    ELSE {"detail", "none"}

\* the outcomes in which something raised inside the detail scrape
FailedOutcomes ==
    {"goto_raises", "described_then_raises", "not_described_then_raises",
     "none"}

\* parser.scrape_job_details(page, url), lines 224-324: the dict details,
\* filled as far as the scrape got; the except clause returns it as it is
ParserDetails(url, o) ==
    IF url = <<>> \/ url = NoEncontrado \/ ~StartsWithHttp(url)       \* 231-232
    THEN [descripcion_completa |-> NoDisponible, navigated |-> FALSE]
    ELSE [descripcion_completa |->
              IF o \in {"described", "described_then_raises"}
              THEN DescriptionText ELSE NoDisponible,
          navigated |-> TRUE]

\* line 216: details['descripcion_completa'][:200] + "..."
Brief(text) == SubSeq(text, 1, Min(Len(text), BriefLength)) \o <<".", ".", ".">>

\* lines 215-216, as a bug would have it: the title is overwritten too
UpdateJobAndTitle(job, details) ==
    IF details.descripcion_completa # NoDisponible
    THEN [job EXCEPT !.descripcion_breve = Brief(details.descripcion_completa),
                     !.titulo_puesto = details.descripcion_completa]
    ELSE job

\* lines 215-216: the job is updated with the details
UpdateJob(job, details) ==
    IF details.descripcion_completa # NoDisponible
    THEN [job EXCEPT !.descripcion_breve = Brief(details.descripcion_completa)]
    ELSE job

\* the loop after a detail scrape, as a bug would have it: a failure ends it
NextIndexOrBreak(i, count, o) == IF o \in FailedOutcomes THEN count ELSE i + 1

\* the loop after a detail scrape (linkedin 207, 222; mercadolibre 520, 541):
\* the next record, whatever happened
NextIndex(i, count, o) == i + 1

EnrichIdle ==
    /\ en_site = "linkedin" /\ en_input = <<>> /\ en_jobs = <<>> /\ en_max = 0
    /\ en_i = 0 /\ en_pc = "returned" /\ en_outcomes = <<>> /\ en_result = <<>>

\* the pass is called with a list and a bound
EnrichStart ==
    /\ en_site \in Sites
    /\ en_input \in (IF en_site = "linkedin" THEN SeqsUpTo(EnrichJobs, MaxJobs)
                     ELSE SeqsUpTo(EnrichUrls, MaxJobs))
    /\ en_max \in (IF en_site = "linkedin" THEN 0..MaxDetailsBound
                   ELSE 1..MaxDetailsBound)
    /\ en_jobs = en_input
    /\ en_i = 0 /\ en_pc = "start" /\ en_outcomes = <<>> /\ en_result = <<>>

\* linkedin 197-205, mercadolibre 505-518: an empty list is returned at
\* once; else the context (and the page, the pool) is set up. When that
\* raises, scrape_job_details returns jobs (226-228) and
\* scrape_product_details raises (547-549).
EnrichOpen ==
    /\ en_pc = "start"
    /\ IF en_input = <<>>
       THEN /\ en_pc' = "returned"
            /\ en_result' = en_jobs
       ELSE \E o \in {"ok", "raises"} :
              IF o = "ok"
              THEN /\ en_pc' = "loop"
                   /\ UNCHANGED en_result
              ELSE /\ en_pc' = IF en_site = "linkedin" THEN "returned_from_except"
                              ELSE "raised"
                   /\ en_result' = IF en_site = "linkedin" THEN en_jobs ELSE <<>>
    /\ UNCHANGED <<en_site, en_input, en_jobs, en_max, en_i, en_outcomes>>
    /\ UNCHANGED <<retryVars, poolVars, taskVars, pagVars, runVars, detVars,
                   mgrVars, ddVars, exVars, bdVars, csVars>>

\* linkedin 207-222: one iteration over jobs[:max_details]
EnrichJobIteration ==
    /\ en_pc = "loop"
    /\ en_site = "linkedin"
    /\ en_i < DetailsCount(en_jobs, en_max)
    /\ LET job == en_jobs[en_i + 1] IN
         IF HasDetailUrl(job)
         THEN \E o \in DetailOutcomes(en_site) :
                LET details == ParserDetails(job.url_empleo, o)
                    outcome == IF details.navigated THEN o ELSE "not_navigated"
                IN /\ en_jobs' = [en_jobs EXCEPT ![en_i + 1] = UpdateJob(job, details)]
                   /\ en_outcomes' = Append(en_outcomes, outcome)
                   /\ en_i' = NextIndex(en_i, DetailsCount(en_jobs, en_max), outcome)
         ELSE /\ en_outcomes' = Append(en_outcomes, "skipped")
              /\ en_i' = en_i + 1
              /\ UNCHANGED en_jobs
    /\ UNCHANGED <<en_site, en_input, en_max, en_pc, en_result>>
    /\ UNCHANGED <<retryVars, poolVars, taskVars, pagVars, runVars, detVars,
                   mgrVars, ddVars, exVars, bdVars, csVars>>

\* mercadolibre 520-541: one iteration over product_urls[:self.max_products];
\* a detail is appended to detailed_products, None is not
EnrichUrlIteration ==
    /\ en_pc = "loop"
    /\ en_site = "mercadolibre"
    /\ en_i < DetailsCount(en_input, en_max)
    /\ \E o \in DetailOutcomes(en_site) :
         /\ en_result' = IF o = "detail"
                         THEN Append(en_result, [url |-> en_input[en_i + 1]])
                         ELSE en_result
         /\ en_outcomes' = Append(en_outcomes, o)
         /\ en_i' = NextIndex(en_i, DetailsCount(en_input, en_max), o)
    /\ UNCHANGED <<en_site, en_input, en_jobs, en_max, en_pc>>
    /\ UNCHANGED <<retryVars, poolVars, taskVars, pagVars, runVars, detVars,
                   mgrVars, ddVars, exVars, bdVars, csVars>>

\* linkedin 224: return jobs; mercadolibre 543-545: return detailed_products
EnrichReturn ==
    /\ en_pc = "loop"
    /\ en_i >= DetailsCount(en_input, en_max)
    /\ en_pc' = "returned"
    /\ en_result' = IF en_site = "linkedin" THEN en_jobs ELSE en_result
    /\ UNCHANGED <<en_site, en_input, en_jobs, en_max, en_i, en_outcomes>>
    /\ UNCHANGED <<retryVars, poolVars, taskVars, pagVars, runVars, detVars,
                   mgrVars, ddVars, exVars, bdVars, csVars>>

NextEnrich ==
    \/ EnrichOpen
    \/ EnrichJobIteration
    \/ EnrichUrlIteration
    \/ EnrichReturn

-----------------------------------------------------------------------------
(* MercadoLibreScraper._handle_bot_detection                               *)
(* (mercadolibre/scraper.py 328-418), on one page that was just loaded     *)

\* line 378: len(page_text.strip()) < 100
MinTextLength == 100

\* the text categories of detection_indicators (340-353), in dict order
TextCategories == <<"rate_limit", "access_denied">>

\* the length of the shortest indicator text of a category ("robot", "403")
ShortestIndicator(c) == IF c = "rate_limit" THEN 5 ELSE 3

\* lines 367-375: the first category, in dict order, one of whose indicator
\* texts is in the body
FirstCategory(found) ==
    IF TextCategories[1] \in found THEN TextCategories[1] ELSE TextCategories[2]

\* lines 385-404: _handle_captcha_detection sleeps 15 to 30 seconds and
\* scrolls the page
CaptchaActions == <<"extended_wait", "scroll">>

\* lines 406-418: _handle_detection_delay sleeps, by category
DetectionDelayActions(c) ==
    IF c = "rate_limit" THEN <<"rate_limit_delay">> ELSE <<"access_denied_delay">>

\* line 380: await random_delay(5, 10)
StarvedActions == <<"random_delay">>

DetectIdle ==
    /\ bd_captcha = FALSE /\ bd_indicators = {} /\ bd_text_length = 0
    /\ bd_raises = "none" /\ bd_pc = "returned" /\ bd_actions = <<>>
    /\ bd_loads = 0

\* page.goto has loaded the page and the detector is called with it
DetectStart ==
    /\ bd_captcha \in BOOLEAN
    /\ bd_indicators \in SUBSET {TextCategories[1], TextCategories[2]}
    /\ bd_text_length \in 0..MaxTextLength
    /\ \A c \in bd_indicators : bd_text_length >= ShortestIndicator(c)
    /\ bd_raises \in {"none", "query_selector", "text_content"}
    /\ bd_pc = "captcha_check" /\ bd_actions = <<>> /\ bd_loads = 1

\* lines 356-361: a CAPTCHA selector matches; 382-383 when the query raises
DetectCaptcha ==
    /\ bd_pc = "captcha_check"
    /\ IF bd_raises = "query_selector"
       THEN bd_pc' = "returned" /\ UNCHANGED bd_actions
       ELSE IF bd_captcha
            THEN bd_pc' = "returned" /\ bd_actions' = bd_actions \o CaptchaActions
            ELSE bd_pc' = "text_check" /\ UNCHANGED bd_actions
    /\ UNCHANGED <<bd_captcha, bd_indicators, bd_text_length, bd_raises, bd_loads>>
    /\ UNCHANGED <<retryVars, poolVars, taskVars, pagVars, runVars, detVars,
                   mgrVars, ddVars, exVars, enVars, csVars>>

\* lines 364-375: the body text is read and searched for indicator texts
DetectIndicators ==
    /\ bd_pc = "text_check"
    /\ IF bd_raises = "text_content"
       THEN bd_pc' = "returned" /\ UNCHANGED bd_actions
       ELSE IF bd_indicators # {}
            THEN /\ bd_pc' = "returned"
                 /\ bd_actions' = bd_actions \o
                        DetectionDelayActions(FirstCategory(bd_indicators))
            ELSE bd_pc' = "starved_check" /\ UNCHANGED bd_actions
    /\ UNCHANGED <<bd_captcha, bd_indicators, bd_text_length, bd_raises, bd_loads>>
    /\ UNCHANGED <<retryVars, poolVars, taskVars, pagVars, runVars, detVars,
                   mgrVars, ddVars, exVars, enVars, csVars>>

\* lines 378-380: a page with little text gets a delay; the detector
\* returns and its caller goes on with the page as it is
DetectStarved ==
    /\ bd_pc = "starved_check"
    /\ bd_actions' = IF bd_text_length < MinTextLength
                     THEN bd_actions \o StarvedActions ELSE bd_actions
    /\ bd_pc' = "returned"
    /\ UNCHANGED <<bd_captcha, bd_indicators, bd_text_length, bd_raises, bd_loads>>
    /\ UNCHANGED <<retryVars, poolVars, taskVars, pagVars, runVars, detVars,
                   mgrVars, ddVars, exVars, enVars, csVars>>

NextDetect ==
    \/ DetectCaptcha
    \/ DetectIndicators
    \/ DetectStarved

-----------------------------------------------------------------------------
(* BrowserManager.start (core/browser.py 20-35) and the start of           *)
(* create_context (37-41), called by several tasks of one event loop; a    *)
(* task is suspended at each await and the others run meanwhile            *)

Starters == 1..MaxStarters

ConcurrentIdle ==
    /\ cs_via = [t \in Starters |-> "start"]
    /\ cs_pc = [t \in Starters |-> "done"]
    /\ cs_began_during = [t \in Starters |-> {}]
    /\ cs_playwright = 0 /\ cs_browser = 0
    /\ cs_drivers = {} /\ cs_browsers = {} /\ cs_launches = 0
    /\ cs_closed = FALSE

\* a new manager (__init__, 15-18) and the tasks that are going to call it
ConcurrentStart ==
    /\ cs_via \in [Starters -> {"start", "create_context"}]
    /\ cs_pc = [t \in Starters |-> "idle"]
    /\ cs_began_during = [t \in Starters |-> {}]
    /\ cs_playwright = 0 /\ cs_browser = 0
    /\ cs_drivers = {} /\ cs_browsers = {} /\ cs_launches = 0
    /\ cs_closed = FALSE

\* line 22, as a bug would have it: if not self.browser
StartGuardOnBrowser == cs_browser = 0

\* line 22: if not self.playwright
StartGuard == cs_playwright = 0

\* lines 39-40 and 22-23: the call begins. create_context calls start() when
\* self.browser is None; start() returns at once when self.playwright is
\* set, else it awaits async_playwright().start(). Back in create_context,
\* self.browser.new_context (57) raises AttributeError when self.browser is
\* still None.
StarterBegins(t) ==
    /\ cs_pc[t] = "idle"
    /\ ~cs_closed
    /\ cs_began_during' =
          [cs_began_during EXCEPT ![t] = {cs_pc[u] : u \in Starters \ {t}}]
    /\ cs_pc' = [cs_pc EXCEPT ![t] =
          IF cs_via[t] = "create_context" /\ cs_browser # 0 THEN "done"
          ELSE IF StartGuard THEN "driver_starting"
          ELSE IF cs_via[t] = "create_context" /\ cs_browser = 0 THEN "raised"
          ELSE "done"]
    /\ UNCHANGED <<cs_via, cs_playwright, cs_browser, cs_drivers, cs_browsers,
                   cs_launches, cs_closed>>
    /\ UNCHANGED <<retryVars, poolVars, taskVars, pagVars, runVars, detVars,
                   mgrVars, ddVars, exVars, enVars, bdVars>>

\* a handle that no running process has
NewHandle(running, current) ==
    CHOOSE h \in 1..(2 * MaxStarters) : h \notin running /\ h # current

\* line 23 resumes: the driver runs, self.playwright is assigned, and
\* chromium.launch is awaited on it (24)
StarterDriverStarted(t) ==
    /\ cs_pc[t] = "driver_starting"
    /\ LET d == NewHandle(cs_drivers, cs_playwright)
       IN /\ cs_drivers' = cs_drivers \cup {d}
          /\ cs_playwright' = d
    /\ cs_pc' = [cs_pc EXCEPT ![t] = "launching"]
    /\ UNCHANGED <<cs_via, cs_began_during, cs_browser, cs_browsers,
                   cs_launches, cs_closed>>
    /\ UNCHANGED <<retryVars, poolVars, taskVars, pagVars, runVars, detVars,
                   mgrVars, ddVars, exVars, enVars, bdVars>>

\* line 24 resumes: the browser runs and self.browser is assigned, or the
\* launch raised
StarterLaunched(t) ==
    /\ cs_pc[t] = "launching"
    /\ \E ok \in BOOLEAN :
         IF ok
         THEN LET b == NewHandle(cs_browsers, cs_browser)
              IN /\ cs_browsers' = cs_browsers \cup {b}
                 /\ cs_browser' = b
                 /\ cs_launches' = cs_launches + 1
                 /\ cs_pc' = [cs_pc EXCEPT ![t] = "done"]
         ELSE /\ cs_pc' = [cs_pc EXCEPT ![t] = "raised"]
              /\ UNCHANGED <<cs_browsers, cs_browser, cs_launches>>
    /\ UNCHANGED <<cs_via, cs_began_during, cs_playwright, cs_drivers, cs_closed>>
    /\ UNCHANGED <<retryVars, poolVars, taskVars, pagVars, runVars, detVars,
                   mgrVars, ddVars, exVars, enVars, bdVars>>

\* close (103-117) once every task is through: the browser and the driver
\* that the manager refers to are closed, the references are set to None
StartersClose ==
    /\ ~cs_closed
    /\ \A t \in Starters : cs_pc[t] \in {"done", "raised"}
    /\ cs_browsers' = cs_browsers \ {cs_browser}
    /\ cs_drivers' = cs_drivers \ {cs_playwright}
    /\ cs_browser' = 0 /\ cs_playwright' = 0
    /\ cs_closed' = TRUE
    /\ UNCHANGED <<cs_via, cs_pc, cs_began_during, cs_launches>>
    /\ UNCHANGED <<retryVars, poolVars, taskVars, pagVars, runVars, detVars,
                   mgrVars, ddVars, exVars, enVars, bdVars>>

NextConcurrent ==
    \/ \E t \in Starters : StarterBegins(t)
    \/ \E t \in Starters : StarterDriverStarted(t)
    \/ \E t \in Starters : StarterLaunched(t)
    \/ StartersClose

-----------------------------------------------------------------------------
(* Specifications *)

InitRetry == RetryStart /\ PoolIdle /\ PagIdle /\ RunIdle /\ DetIdle /\ MgrIdle /\ DedupIdle /\ ExtractIdle /\ EnrichIdle /\ DetectIdle /\ ConcurrentIdle

SpecRetry == InitRetry /\ [][NextRetry]_vars

InitPool == PoolStart /\ RetryIdle /\ PagIdle /\ RunIdle /\ DetIdle /\ MgrIdle /\ DedupIdle /\ ExtractIdle /\ EnrichIdle /\ DetectIdle /\ ConcurrentIdle

SpecPool == InitPool /\ [][NextPool]_vars

InitPaginate == PagStart /\ RetryIdle /\ PoolIdle /\ RunIdle /\ DetIdle /\ MgrIdle /\ DedupIdle /\ ExtractIdle /\ EnrichIdle /\ DetectIdle /\ ConcurrentIdle

SpecPaginate == InitPaginate /\ [][NextPaginate]_vars

\* the event loop keeps running the coroutine, and every await of the
\* scrape has a timeout (page.goto, wait_for_selector) or is a sleep: a step
\* that can be taken is taken
SpecPaginateFair == SpecPaginate /\ WF_vars(NextPaginate)

InitRun == RunStart /\ DetStart /\ RetryIdle /\ PoolIdle /\ PagIdle /\ MgrIdle /\ DedupIdle /\ ExtractIdle /\ EnrichIdle /\ DetectIdle /\ ConcurrentIdle

SpecRun == InitRun /\ [][NextRun]_vars

InitManager == RunIdle /\ DetIdle /\ MgrIdle /\ RetryIdle /\ PoolIdle /\ PagIdle /\ DedupIdle /\ ExtractIdle /\ EnrichIdle /\ DetectIdle /\ ConcurrentIdle

SpecManager == InitManager /\ [][NextManager]_vars

InitDedup == DedupStart /\ RunIdle /\ DetIdle /\ MgrIdle /\ RetryIdle /\ PoolIdle /\ PagIdle /\ ExtractIdle /\ EnrichIdle /\ DetectIdle /\ ConcurrentIdle

SpecDedup == InitDedup /\ [][NextDedup]_vars

InitExtract == ExtractStart /\ DedupIdle /\ RunIdle /\ DetIdle /\ MgrIdle /\ RetryIdle /\ PoolIdle /\ PagIdle /\ EnrichIdle /\ DetectIdle /\ ConcurrentIdle

SpecExtract == InitExtract /\ [][NextExtract]_vars

InitEnrich == EnrichStart /\ ExtractIdle /\ DedupIdle /\ RunIdle /\ DetIdle /\ MgrIdle /\ RetryIdle /\ PoolIdle /\ PagIdle /\ DetectIdle /\ ConcurrentIdle

SpecEnrich == InitEnrich /\ [][NextEnrich]_vars

InitDetect == DetectStart /\ EnrichIdle /\ ExtractIdle /\ DedupIdle /\ RunIdle /\ DetIdle /\ MgrIdle /\ RetryIdle /\ PoolIdle /\ PagIdle /\ ConcurrentIdle

SpecDetect == InitDetect /\ [][NextDetect]_vars

InitConcurrent == ConcurrentStart /\ DetectIdle /\ EnrichIdle /\ ExtractIdle /\ DedupIdle /\ RunIdle /\ DetIdle /\ MgrIdle /\ RetryIdle /\ PoolIdle /\ PagIdle

SpecConcurrent == InitConcurrent /\ [][NextConcurrent]_vars

-----------------------------------------------------------------------------
(* Claims about retry_async, checked under SpecRetry                       *)

CallOutcomes == SelectSeqMap(retry_trace, "call")

AllCallsFailed == \A k \in 1..Len(CallOutcomes) : CallOutcomes[k] = "fail"

\* C1: an operation that fails on every call is invoked exactly
\* max_retries + 1 times and then the wrapper raises; func is never invoked
\* more often than that, and the wrapper does not return normally.
C1_RetryBound ==
    /\ Calls <= max_retries + 1
    /\ (retry_pc = "raised" => Calls = max_retries + 1 /\ AllCallsFailed)
    /\ (AllCallsFailed => retry_pc # "returned")
    /\ (AllCallsFailed /\ Calls = max_retries + 1 => retry_pc = "raised")

C1_Witness == retry_pc = "raised" /\ max_retries = 3 /\ Calls = 4

C3_BackoffDelays ==
    /\ \A k \in 1..Len(Sleeps) : Sleeps[k] = delay * Pow(backoff, k - 1)
    /\ \A j \in 1..Len(retry_trace) :
          retry_trace[j][1] = "sleep" =>
              j > 1 /\ retry_trace[j - 1] = <<"call", "fail">>
    /\ \A j \in 1..Len(retry_trace) :
          (/\ retry_trace[j] = <<"call", "fail">>
           /\ Len(SelectSeqMap(SubSeq(retry_trace, 1, j - 1), "call")) < max_retries)
          => j < Len(retry_trace) /\ retry_trace[j + 1][1] = "sleep"
    /\ (retry_pc = "raised" =>
          /\ retry_trace[Len(retry_trace)] = <<"call", "fail">>
          /\ Len(Sleeps) = max_retries)

C3_Witness ==
    /\ retry_pc = "raised" /\ delay = 1 /\ backoff = 2 /\ max_retries = 3
    /\ Sleeps = <<1, 2, 4>>

-----------------------------------------------------------------------------
(* Claims about PagePool and the detail loop, checked under SpecPool       *)

RECURSIVE SumOver(_, _)
SumOver(f, S) ==
    IF S = {} THEN 0
    ELSE LET x == CHOOSE y \in S : TRUE IN f[x] + SumOver(f, S \ {x})

\* pages obtained by get_page and not yet returned
OutstandingLeases == SumOver(task_gets, Tasks) - SumOver(task_returns, Tasks)

\* C4: the number of outstanding leases is at most the pool size, and
\* get_page never creates a page: the pool holds exactly the size pages
\* that initialize created.
C4_LeasesBounded ==
    /\ OutstandingLeases <= size
    /\ Cardinality(Leases) <= size
    /\ pool_pc = "new" => pages_opened = 0 /\ pages = <<>> /\ Leases = {}
    /\ pool_pc # "new" =>
          /\ pages_opened = size
          /\ Len(pages) = size
          /\ Cardinality(Range(pages)) = size
          /\ \A t \in Leases : task_page[t] \in Range(pages)
          /\ Range(available_pages) \subseteq Range(pages)

\* every page of the pool is leased while another task waits for one
C4_Witness ==
    /\ size = 2
    /\ OutstandingLeases = size
    /\ \E t \in Tasks : task_pc[t] = "loop" /\ task_gets[t] = 0
    /\ \E t \in Tasks : task_returns[t] > 0

\* C5: a page is never leased to two tasks at the same time: from the
\* get_page that hands page p to a task until that task's return_page(p),
\* p is held by no other task and cannot be handed out (it is not queued).
C5_ExclusiveLease ==
    /\ \A t1, t2 \in Leases : t1 # t2 => task_page[t1] # task_page[t2]
    /\ \A t \in Leases : task_page[t] \notin Range(available_pages)
    /\ \A j, k \in 1..Len(available_pages) :
          j # k => available_pages[j] # available_pages[k]

\* two tasks hold pages at once, each of which was leased before
C5_Witness ==
    \E t1, t2 \in Leases :
        /\ t1 # t2
        /\ task_gets[t1] > 1
        /\ task_page[t1] = task_last[t2][2]

\* a task is between two iterations of the loop, or past it
AtIterationBoundary(t) == task_pc[t] \in {"loop", "done"}

\* C6: every get_page of the loop is followed by exactly one return_page of
\* the same page before the next iteration starts, also when the processing
\* of the record failed with an exception, so no page is leaked.
C6_ReturnedEveryIteration ==
    /\ \A t \in Tasks :
          /\ AtIterationBoundary(t) =>
                /\ task_page[t] = NoPage
                /\ task_returns[t] = task_gets[t]
                /\ task_gets[t] = task_i[t]
                /\ task_last[t][2] = task_last[t][1]
          /\ ~AtIterationBoundary(t) =>
                /\ task_page[t] # NoPage
                /\ task_returns[t] + 1 = task_gets[t]
                /\ task_last[t][1] = task_page[t]
    /\ (pool_pc # "new" /\ \A t \in Tasks : AtIterationBoundary(t))
          => Range(available_pages) = Range(pages)

\* the processing of a record failed with an exception, and the task went on
\* to the next iteration with its page returned
C6_Witness ==
    \E t \in Tasks :
        /\ task_detail[t] = "failed"
        /\ task_pc[t] = "loop"
        /\ task_i[t] = 1
        /\ task_returns[t] = 1
        /\ task_last[t][2] \in Range(available_pages)

-----------------------------------------------------------------------------
(* Claims about the pagination loop, checked under SpecPaginate            *)

\* the loop has ended after processing at least one page
LoopStopped == iterations > 0 /\ pag_pc \in {"after_loop", "returned"}

\* C7: when every processed page yields zero accepted records, the loop
\* ends within 2 iterations (the empty-page threshold), also when a
\* next-page link is found on every page.
C7_EmptyPagesTerminate ==
    products_scraped = 0 =>
        /\ iterations <= 2
        /\ iterations = 2 => LoopStopped /\ stop_reason = "empty_limit"

\* two empty pages, each with a next-page link that could be followed
C7_Witness ==
    /\ LoopStopped
    /\ products_scraped = 0 /\ iterations = 2 /\ page_number = 2
    /\ last_page.has_next /\ last_page.nav_ok

\* the three stop conditions of the claim, after the last processed page
StopConditionHolds ==
    \/ products_scraped >= max_products
    \/ consecutive_empty_pages >= 2
    \/ ~last_page.has_next

-----------------------------------------------------------------------------
(* Claims about a run over the search terms, checked under SpecRun         *)

RECURSIVE RecordsOfTerms(_)
\* the records returned by the scrapes of terms 1..k that succeeded, in order
RecordsOfTerms(k) ==
    IF k = 0 THEN <<>>
    ELSE RecordsOfTerms(k - 1) \o
         (IF term_status[k] = "ok" THEN term_records[k] ELSE <<>>)

\* the scrape of some term failed on every attempt it was given
SomeTermFailed == \E k \in 1..n_terms : term_status[k] = "failed"

\* a failure of the session itself (no page can be opened) ended the run
SessionFailed == \E k \in 1..n_terms : term_status[k] = "fatal"

\* C9: when the scrape of one search term fails on every retry attempt,
\* only that term is aborted: the run is not aborted (unless the session
\* itself fails), it goes on with the remaining terms and returns the
\* records of the terms that succeeded.
C9_FailedTermDoesNotAbortRun ==
    (SomeTermFailed /\ ~SessionFailed) =>
        /\ run_pc # "raised"
        /\ run_pc = "returned" =>
              /\ \A k \in 1..n_terms : term_status[k] # "pending"
              /\ run_result = Deduplicate(site, RecordsOfTerms(n_terms))

\* what the caller of the run can get at: the returned list and the list
\* the scraper object keeps
ReachableByCaller ==
    Range(run_result) \cup Range(scraped_products)

\* C10: when a run is aborted by a failure after some terms were scraped,
\* the records extracted before the failure are still reachable by the
\* caller of the run.
C10_PartialResultsReachable ==
    run_pc = "raised" => Range(all_products) \subseteq ReachableByCaller

-----------------------------------------------------------------------------
(* Claims about the release of resources, checked under SpecRun            *)

\* the run is over: scrape_products / scrape_jobs raised, or returned with
\* no enrichment pass to follow, or the enrichment pass returned
RunEnded ==
    \/ run_pc = "raised"
    \/ /\ run_pc = "returned"
       /\ details_mode = "off" \/ run_result = <<>> \/ det_pc = "returned"

\* C11: when a run ends, by normal return or by a failure, every page,
\* context and browser process that the run opened has been released; in
\* particular no browser process is left running after scrape_jobs
\* followed by scrape_job_details on the same BrowserManager.
C11_EverythingReleasedAtEnd ==
    RunEnded =>
        /\ chromium.browsers = 0
        /\ chromium.drivers = 0
        /\ chromium.contexts = {}
        /\ det_page # "open"

\* the operations performed so far on the driver, browsers, contexts, pages
Events == chromium.events

\* the positions of Events where operation op was performed
EventsOf(op) == {j \in 1..Len(Events) : Events[j].op = op}

\* whenever a browser process was closed, every context created before had
\* been closed before
ContextsClosedBeforeBrowser ==
    \A j \in EventsOf("browser_close") :
        \A i \in EventsOf("new_context") :
            i < j => \E k \in EventsOf("context_close") :
                        i < k /\ k < j /\ Events[k].context = Events[i].context

\* scrape_products, scrape_jobs or managed_browser has just been left
ExitedMainMethod ==
    /\ site \in Sites \cup {"managed_browser"}
    /\ run_pc \in {"returned", "raised"} /\ det_pc = "idle"

\* C12: close() closes every context the manager created before it closes
\* the browser process; it has run when scrape_products, scrape_jobs or
\* managed_browser is left, by return or by exception; after it the manager
\* holds no context, no browser and no playwright handle.
C12_CloseOnEveryExit ==
    /\ ContextsClosedBeforeBrowser
    /\ ExitedMainMethod =>
          /\ browser_manager = NewManager
          /\ chromium.browsers = 0 /\ chromium.drivers = 0
          /\ chromium.contexts = {}
          /\ Events # <<>> /\ Events[Len(Events)].op = "driver_stop"

\* managed_browser left by an exception of its body, with two contexts
C12_Witness ==
    /\ site = "managed_browser" /\ run_pc = "raised"
    /\ Cardinality(EventsOf("context_close")) = 2
    /\ Cardinality(EventsOf("browser_close")) = 1

-----------------------------------------------------------------------------
(* Claims about BrowserManager, checked under SpecManager                  *)

\* C13 as stated: over any sequence of start(), create_context() and
\* close() calls on one manager, the browser process is launched once.
C13_LaunchedOncePerInstance == chromium.launches <= 1

\* C13 as amended: start() launches nothing on a manager that is started;
\* close() resets the manager and the next start() or create_context()
\* launches again, so between two launches there is always a close(), and
\* the manager never runs two browser processes at once.
C13_LaunchedOncePerStartedPeriod ==
    /\ \A i, j \in EventsOf("launch") :
          i < j => \E k \in EventsOf("driver_stop") : i < k /\ k < j
    /\ chromium.launches = Cardinality(EventsOf("launch"))
    /\ chromium.browsers <= 1 /\ chromium.drivers <= 1
    /\ browser_manager.browser <=> chromium.browsers = 1

\* start() twice, close(), start(): two launches
C13_Witness ==
    /\ manager_calls = <<"start", "start", "close", "start">>
    /\ chromium.launches = 2

\* C14: create_context puts the anti-fingerprinting injection on the new
\* context before any page is opened in it, so every page opened in the
\* context has the injection in place at its first navigation.
C14_InjectionBeforeFirstNavigation ==
    /\ \A j \in EventsOf("new_page") :
          "stealth_mode" \in chromium.init_scripts[Events[j].context]
    /\ \A j \in EventsOf("goto") : "stealth_mode" \in Events[j].scripts

-----------------------------------------------------------------------------
(* Claims about _remove_duplicates, checked under SpecDedup                *)

\* the list _remove_duplicates was applied to
DedupInput == batch_a \o batch_b

RECURSIVE IsSubsequence(_, _)
\* s can be obtained from t by deleting elements, the order kept
IsSubsequence(s, t) ==
    IF s = <<>> THEN TRUE
    ELSE IF t = <<>> THEN FALSE
    ELSE IF Head(s) = Head(t) THEN IsSubsequence(Tail(s), Tail(t))
         ELSE IsSubsequence(s, Tail(t))

\* C15: for every list of records, _remove_duplicates applied twice gives
\* the same list as applied once, and its output is a subsequence of its
\* input in the same relative order.
C15_IdempotentStableSubsequence ==
    /\ dd_pc # "input" => IsSubsequence(dedup_once, DedupInput)
    /\ dd_pc = "twice" => dedup_twice = dedup_once

\* four records of two batches, two of them dropped as duplicates
C15_Witness ==
    /\ dd_pc = "twice"
    /\ Len(batch_a) = 2 /\ Len(batch_b) = 2
    /\ Len(dedup_once) = 2 /\ dedup_twice = dedup_once

\* the keys _remove_duplicates sees in a list
SeenKeys(list) == {SeenKey(dd_site, list[j]) : j \in 1..Len(list)}

\* the number of records of the second batch whose key is in the first batch
SharedAcrossBatches ==
    Cardinality({j \in 1..Len(batch_b) : SeenKey(dd_site, batch_b[j]) \in SeenKeys(batch_a)})

\* no two records of the list have the same key
NoDuplicateWithin(list) == Cardinality(SeenKeys(list)) = Len(list)

DedupKey(r) ==
    IF dd_site = "mercadolibre"
    THEN IF r.url_producto # NA
         THEN [url |-> r.url_producto, fields |-> <<>>]
         ELSE [url |-> <<>>, fields |-> <<r.producto, r.precio, r.vendedor>>]
    ELSE IF r.url_empleo # NoEncontrado
         THEN [url |-> r.url_empleo, fields |-> <<>>]
         ELSE [url |-> <<>>, fields |-> <<r.titulo_puesto, r.empresa, r.ubicacion>>]

\* the positions of the records that are the first of their DedupKey
FirstOfKey(list) ==
    {i \in 1..Len(list) :
        \A j \in 1..(i - 1) : DedupKey(list[j]) # DedupKey(list[i])}

RECURSIVE SelectPositions(_, _, _)
\* the elements of list at the positions P, from position i on, in order
SelectPositions(list, P, i) ==
    IF i > Len(list) THEN <<>>
    ELSE (IF i \in P THEN <<list[i]>> ELSE <<>>) \o SelectPositions(list, P, i + 1)

\* C17: _remove_duplicates keeps exactly one record per DedupKey, the first
\* one seen, and collapses two records only if their DedupKeys are equal.
C17_FirstRecordOfEachDedupKey ==
    dd_pc # "input" =>
        dedup_once = SelectPositions(DedupInput, FirstOfKey(DedupInput), 1)

-----------------------------------------------------------------------------
(* Claims about the field extractors, checked under SpecExtract            *)

\* the selectors whose text passes the check of the extractor
Accepted ==
    {k \in 1..Len(ex_locators) :
        ex_locators[k] \in {"accepted", "accepted_then_raises"}}

\* the first of them in list order
FirstAccepted == CHOOSE k \in Accepted : \A j \in Accepted : k <= j

\* C18: the extractor returns the result of the first selector in list
\* order whose result passes validation, and queries no selector after it
\* (_extract_product_title, _extract_price, title loop of parse_job_element).
C18_FirstAcceptedAndNoneAfter ==
    (/\ ex_pc = "returned"
     /\ ex_field \in {"product_title", "price", "job_title"}
     /\ Accepted # {})
    => /\ ex_result = ValueOf(ex_field, FirstAccepted)
       /\ ex_queried = [k \in 1..FirstAccepted |-> k]

\* C19: when every selector of a field fails (finds nothing, raises, or its
\* result is rejected), the extractor returns the not-found sentinel of the
\* field; it never raises to the record builder.
C19_SentinelWhenAllFail ==
    /\ ex_pc # "raised"
    /\ (ex_pc = "returned" /\ Accepted = {}) =>
          /\ ex_result = NotFound(ex_field)
          /\ ex_result.text = Sentinel(ex_field)
          /\ ex_queried = [k \in 1..Len(ex_locators) |-> k]

\* three selectors, one finds nothing, one raises, one is rejected
C19_Witness ==
    /\ ex_pc = "returned" /\ ex_field = "seller_name"
    /\ ex_locators = <<"none", "raises", "rejected">>
    /\ ex_result.text = "Desconocido"

-----------------------------------------------------------------------------
(* Claims about the enrichment pass, checked under SpecRun                 *)

\* the detail URL of the k-th record given to the enrichment pass
DetailUrlOf(k) ==
    IF site = "product_details" THEN detail_urls[k] ELSE run_result[k].url_empleo

\* the record has a detail URL that can be resolved (not the sentinel)
Resolvable(url) == url # <<>> /\ url # NA /\ url # NoEncontrado

\* C20: the enrichment pass navigates to the detail page of at most K
\* records per run (K = max_details, at most 20 from scrape_linkedin_jobs;
\* K = max_products in scrape_product_details), and only for records that
\* have a resolvable detail URL.
C20_AtMostKResolvableDetails ==
    /\ Len(det_visits) <= max_details
    /\ details_mode = "main" => Len(det_visits) <= DetailsLimit
    /\ \A j \in 1..Len(det_visits) : Resolvable(DetailUrlOf(det_visits[j]))

-----------------------------------------------------------------------------
(* Claims about the enrichment pass on the records, checked under          *)
(* SpecEnrich                                                              *)

\* the pass went through its loop and returned
EnrichLoopReturned == en_pc = "returned" /\ en_input # <<>>

\* the positions of the loop at which the detail scrape had outcome in S
OutcomePositions(S) == {j \in 1..Len(en_outcomes) : en_outcomes[j] \in S}

\* C21 as stated: when enrichment of one record fails, the failure is
\* swallowed: that record keeps its listing-page values, the loop goes on
\* with the next record, and the batch is returned with all its records.
C21_FailedRecordKeepsListingValues ==
    EnrichLoopReturned /\ OutcomePositions(FailedOutcomes) # {} =>
      /\ Len(en_outcomes) = DetailsCount(en_input, en_max)
      /\ Len(en_result) = IF en_site = "linkedin" THEN Len(en_input)
                          ELSE DetailsCount(en_input, en_max)
      /\ en_site = "linkedin" =>
           \A j \in OutcomePositions(FailedOutcomes) : en_result[j] = en_input[j]

\* C21 as amended: a failure of one record is swallowed and the loop goes on
\* with the next record until the first K are done. scrape_job_details
\* returns all its records; one whose detail scrape failed before a
\* description was read keeps its listing-page values, one whose detail
\* scrape failed after the description was read has the new description.
\* scrape_product_details returns one detail per URL that did not fail.
C21_FailureSwallowedLoopGoesOn ==
    EnrichLoopReturned =>
      /\ Len(en_outcomes) = DetailsCount(en_input, en_max)
      /\ en_site = "linkedin" =>
           /\ Len(en_result) = Len(en_input)
           /\ \A j \in OutcomePositions({"goto_raises", "not_described_then_raises"}) :
                en_result[j] = en_input[j]
           /\ \A j \in OutcomePositions({"described_then_raises"}) :
                en_result[j] = [en_input[j] EXCEPT
                                  !.descripcion_breve = Brief(DescriptionText)]
      /\ en_site = "mercadolibre" =>
           Len(en_result) = Cardinality(OutcomePositions({"detail"}))

\* a failure on the first record, and the second record still enriched
C21_Witness ==
    /\ EnrichLoopReturned
    /\ Len(en_outcomes) = 2
    /\ en_outcomes[1] \in FailedOutcomes
    /\ en_outcomes[2] \in {"described", "detail"}

\* every field of JobData but descripcion_breve
SameButBrief(a, b) ==
    /\ a.url_empleo = b.url_empleo /\ a.titulo_puesto = b.titulo_puesto
    /\ a.empresa = b.empresa /\ a.ubicacion = b.ubicacion

\* C27: scrape_job_details changes no field of any record other than
\* descripcion_breve, returns the same records in the same order and
\* number, and returns the records beyond the first K and the records
\* without a detail URL unchanged.
C27_OnlyTheDescriptionChanges ==
    en_site = "linkedin" /\ en_pc \in {"returned", "returned_from_except"} =>
      /\ Len(en_result) = Len(en_input)
      /\ \A j \in 1..Len(en_input) :
           /\ SameButBrief(en_result[j], en_input[j])
           /\ j > en_max => en_result[j] = en_input[j]
           /\ ~HasDetailUrl(en_input[j]) => en_result[j] = en_input[j]

\* two records are returned, the first with a new description, the second,
\* beyond K, as it was
C27_Witness ==
    /\ en_site = "linkedin" /\ en_pc = "returned"
    /\ Len(en_input) = 2 /\ en_max = 1
    /\ en_result[1] # en_input[1]
    /\ HasDetailUrl(en_input[2])
    /\ en_result[2] = en_input[2]

-----------------------------------------------------------------------------
(* Claims about the order of a run, checked under SpecRun                  *)

RECURSIVE TermsAndDelays(_)
\* terms 1..k in request order, one delay between two consecutive terms
TermsAndDelays(k) ==
    IF k = 0 THEN <<>>
    ELSE IF k = 1 THEN << <<"term", 1>> >>
    ELSE TermsAndDelays(k - 1) \o << <<"delay", k - 1>>, <<"term", k>> >>

RECURSIVE AllRecordsOfTerms(_)
\* the concatenation of what the scrapes of terms 1..k returned
AllRecordsOfTerms(k) ==
    IF k = 0 THEN <<>> ELSE AllRecordsOfTerms(k - 1) \o term_records[k]

IsPrefix(s, t) == Len(s) <= Len(t) /\ SubSeq(t, 1, Len(s)) = s

\* the whole trace of a run over n_terms terms that returns
WholeRunTrace ==
    TermsAndDelays(n_terms) \o
    << <<"dedupe", Len(AllRecordsOfTerms(n_terms))>> >>

\* C22: in a run over n search terms, the terms are scraped one at a time in
\* request order, an inter-term delay is applied before every term except
\* the first (n - 1 delays, each between two consecutive terms), and
\* deduplication is applied once, after the last term, to the concatenation
\* of all terms' records.
C22_TermsDelaysThenOneDeduplication ==
    site \in Sites =>
      /\ \/ IsPrefix(run_trace, TermsAndDelays(n_terms))
         \/ run_trace = WholeRunTrace
      /\ run_pc = "returned" =>
           /\ run_trace = WholeRunTrace
           /\ Len(SelectSeqMap(run_trace, "delay")) = n_terms - 1
           /\ run_result = Deduplicate(site, AllRecordsOfTerms(n_terms))

\* a run over two terms returned, both terms gave records
C22_Witness ==
    /\ site \in Sites /\ run_pc = "returned" /\ n_terms = MaxTerms
    /\ \A k \in 1..n_terms : term_records[k] # <<>>
    /\ Len(run_result) < Len(AllRecordsOfTerms(n_terms))

-----------------------------------------------------------------------------
(* Claims about the block detector, checked under SpecDetect               *)

\* the detector found no CAPTCHA and no indicator text, and the body text
\* is below the minimum length
ContentStarved ==
    /\ bd_raises = "none" /\ ~bd_captcha /\ bd_indicators = {}
    /\ bd_text_length < MinTextLength

\* C23: when the block detector finds the page text below the minimum
\* length, the recovery is a short wait followed by one retry (a second
\* load) of the same page before extraction proceeds.
C23_StarvedPageWaitedAndRetriedOnce ==
    bd_pc = "returned" /\ ContentStarved =>
      /\ bd_actions # <<>> /\ bd_actions[1] = "random_delay"
      /\ bd_loads = 2

-----------------------------------------------------------------------------
(* Claims about the scrape of one term, its navigations and its page,      *)
(* checked under SpecPaginate                                              *)

\* the scrape of the term has ended: it returned, or it raised and the
\* wrapper does not call it again
TermEnded ==
    \/ pag_pc = "returned"
    \/ /\ pag_pc = "raised"
       /\ pag_site = "linkedin" \/ IsLastAttempt(pag_attempt, TermMaxRetries)

\* the positions of pag_trace that hold one of the events of S
TracePositions(S) == {i \in 1..Len(pag_trace) : pag_trace[i] \in S}

FailedNavigations ==
    {"goto_search_raises", "goto_next_raises", "goto_jobs_raises",
     "goto_login_raises"}

\* the same navigation when it succeeds
Succeeding(e) ==
    CASE e = "goto_search_raises" -> "goto_search"
      [] e = "goto_next_raises" -> "goto_next"
      [] e = "goto_jobs_raises" -> "goto_jobs"
      [] e = "goto_login_raises" -> "goto_login"

\* the navigation that failed at position i was made again after a sleep of
\* the retry wrapper, or it failed on the last attempt the policy allows
ReattemptedWithBackoff(i) ==
    \/ \E j \in TracePositions({"sleep"}) :
         /\ j > i
         /\ \E k \in TracePositions({pag_trace[i], Succeeding(pag_trace[i])}) : k > j
    \/ Cardinality({j \in TracePositions({"sleep"}) : j < i}) = TermMaxRetries

\* C24: every browser navigation is executed under the retry policy: a
\* navigation that fails, the navigation to a next page inside the
\* pagination loop included, is re-attempted with backoff before its
\* failure ends the term.
C24_FailedNavigationReattempted ==
    TermEnded => \A i \in TracePositions(FailedNavigations) : ReattemptedWithBackoff(i)

\* the pagination loop of the mercadolibre scrape is running or just ended
InLoop == pag_site = "mercadolibre" /\ pag_pc \in {"loop", "after_loop"}

\* from one state of the loop to the next
LoopStep ==
    InLoop /\ InLoop' =>
      /\ page_number' >= page_number
      /\ products_scraped' >= products_scraped
      /\ iterations' = iterations + 1 =>
           IF last_page'.n > 0
           THEN consecutive_empty_pages' = 0
           ELSE consecutive_empty_pages' = consecutive_empty_pages + 1

\* C25: in the pagination loop the page index starts at 1 and never
\* decreases, the cumulative record count never decreases, the
\* consecutive-empty-page counter is set to 0 by a page with at least one
\* accepted record and incremented by exactly 1 by a page with none, and the
\* counter never exceeds the threshold.
C25_PageCursorInvariants ==
    /\ [](InLoop => /\ page_number >= 1
                    /\ iterations = 0 => page_number = 1
                    /\ consecutive_empty_pages <= max_empty_pages)
    /\ [][LoopStep]_vars

\* an empty page, then a page with records that resets the counter, then an
\* empty page again
C25_Witness ==
    /\ InLoop /\ iterations = 3 /\ page_number = 3
    /\ consecutive_empty_pages = 1 /\ products_scraped > 0

\* C26: the list returned by _scrape_search_term has at most
\* max-records-per-term elements, also when the last processed page carries
\* the cumulative count past the maximum.
C26_AtMostMaxRecordsPerTerm ==
    pag_pc = "returned" => Len(term_result) <= max_products

\* the last page carried the count past the maximum and the list was cut
C26_Witness ==
    /\ pag_site = "mercadolibre" /\ pag_pc = "returned"
    /\ products_scraped > max_products
    /\ Len(term_result) = max_products

\* pages opened and not yet closed
OpenPages ==
    Cardinality(TracePositions({"new_page"})) - Cardinality(TracePositions({"close"}))

\* C29: every page opened by _scrape_search_term is closed before that
\* invocation returns or raises: each attempt of the retry wrapper opens at
\* most one page and closes it, at most one page per term is open at any
\* time, and no page of an earlier attempt is open when the next starts.
C29_PageClosedBeforeInvocationEnds ==
    /\ OpenPages \in {0, 1}
    /\ OpenPages = 1 <=> term_page = "open"
    /\ pag_pc \in {"start", "returned", "raised"} => OpenPages = 0
    /\ Cardinality(TracePositions({"new_page"})) <= pag_attempt + 1

\* a first attempt failed in page.goto, the second opened its own page,
\* paginated and returned
C29_Witness ==
    /\ pag_site = "mercadolibre" /\ pag_pc = "returned" /\ pag_attempt = 1
    /\ iterations > 1
    /\ Cardinality(TracePositions({"new_page"})) = 2
    /\ Cardinality(TracePositions({"close"})) = 2

-----------------------------------------------------------------------------
(* Termination of the pagination loop, checked under SpecPaginateFair      *)

\* C28: for every page source (empty and non-empty pages, a next-page link
\* present or absent, navigation succeeding or failing), the pagination
\* loop of _scrape_search_term terminates, after at most
\* max_products * max_empty_pages processed pages.
C28_LoopTerminatesWithinBound ==
    /\ [](iterations <= max_products * max_empty_pages)
    /\ (pag_pc = "loop") ~> (pag_pc = "returned")

\* the longest loop: an empty page before every page with one record
C28_Witness ==
    /\ pag_site = "mercadolibre" /\ pag_pc = "returned"
    /\ max_products > 1
    /\ iterations = max_products * max_empty_pages

-----------------------------------------------------------------------------
(* Claims about concurrent calls of start, checked under SpecConcurrent    *)

\* some call began while another task was suspended in the launch, line 24,
\* and no call began while another was suspended before it, line 23
BeganDuringLaunch ==
    /\ \E t \in Starters : "launching" \in cs_began_during[t]
    /\ \A t \in Starters : "driver_starting" \notin cs_began_during[t]

\* C30: when two tasks call start() (directly or through create_context) on
\* the same manager, the second call beginning while the first is suspended
\* in the launch, the browser is launched at most once and no launched
\* browser or playwright handle is left unclosed by close().
C30_ConcurrentStartLaunchesOnce ==
    BeganDuringLaunch =>
      /\ cs_launches <= 1
      /\ Cardinality(cs_drivers) <= 1 /\ Cardinality(cs_browsers) <= 1
      /\ cs_closed => cs_drivers = {} /\ cs_browsers = {}

\* a create_context call began during the launch of a start() call, the
\* browser was launched, and close() left nothing running
C30_Witness ==
    /\ BeganDuringLaunch
    /\ \E t \in Starters :
         "launching" \in cs_began_during[t] /\ cs_via[t] = "create_context"
    /\ cs_launches = 1
    /\ cs_closed /\ cs_drivers = {} /\ cs_browsers = {}

====
